---------------------------- MODULE Spec2Model ----------------------------
(***************************************************************************)
(* Navigation core of the koolo bot: area-graph routing (move.go,          *)
(* area_adjacency.go), the waypoint protocol (waypoint.go), the entrance   *)
(* interaction loop (step/interact_entrance.go) and the movement loop      *)
(* (move.go), modelled as state machines over the game snapshot.           *)
(***************************************************************************)
EXTENDS Integers, Sequences, FiniteSets, TLC

(***************************************************************************)
(* Areas.  An area is named by the identifier the source uses for it       *)
(* (area.BloodMoor is "BloodMoor"); AreaID gives its numeric area.ID.      *)
(***************************************************************************)
AreaID ==
  [ RogueEncampment |-> 1, BloodMoor |-> 2, ColdPlains |-> 3, StonyField |-> 4, DarkWood |-> 5,
    BlackMarsh |-> 6, TamoeHighland |-> 7, DenOfEvil |-> 8, CaveLevel1 |-> 9,
    UndergroundPassageLevel1 |-> 10, HoleLevel1 |-> 11, PitLevel1 |-> 12, CaveLevel2 |-> 13,
    UndergroundPassageLevel2 |-> 14, HoleLevel2 |-> 15, PitLevel2 |-> 16, BurialGrounds |-> 17,
    Crypt |-> 18, Mausoleum |-> 19, ForgottenTower |-> 20, TowerCellarLevel1 |-> 21,
    TowerCellarLevel2 |-> 22, TowerCellarLevel3 |-> 23, TowerCellarLevel4 |-> 24,
    TowerCellarLevel5 |-> 25, MonasteryGate |-> 26, OuterCloister |-> 27, Barracks |-> 28,
    JailLevel1 |-> 29, JailLevel2 |-> 30, JailLevel3 |-> 31, InnerCloister |-> 32,
    Cathedral |-> 33, CatacombsLevel1 |-> 34, CatacombsLevel2 |-> 35, CatacombsLevel3 |-> 36,
    CatacombsLevel4 |-> 37, Tristram |-> 38, MooMooFarm |-> 39, LutGholein |-> 40,
    RockyWaste |-> 41, DryHills |-> 42, FarOasis |-> 43, LostCity |-> 44,
    ValleyOfSnakes |-> 45, CanyonOfTheMagi |-> 46, SewersLevel1Act2 |-> 47,
    SewersLevel2Act2 |-> 48, SewersLevel3Act2 |-> 49, HaremLevel1 |-> 50, HaremLevel2 |-> 51,
    PalaceCellarLevel1 |-> 52, PalaceCellarLevel2 |-> 53, PalaceCellarLevel3 |-> 54,
    StonyTombLevel1 |-> 55, HallsOfTheDeadLevel1 |-> 56, HallsOfTheDeadLevel2 |-> 57,
    ClawViperTempleLevel1 |-> 58, StonyTombLevel2 |-> 59, HallsOfTheDeadLevel3 |-> 60,
    ClawViperTempleLevel2 |-> 61, MaggotLairLevel1 |-> 62, MaggotLairLevel2 |-> 63,
    MaggotLairLevel3 |-> 64, AncientTunnels |-> 65, TalRashasTomb1 |-> 66,
    TalRashasTomb2 |-> 67, TalRashasTomb3 |-> 68, TalRashasTomb4 |-> 69, TalRashasTomb5 |-> 70,
    TalRashasTomb6 |-> 71, TalRashasTomb7 |-> 72, DurielsLair |-> 73, ArcaneSanctuary |-> 74,
    KurastDocks |-> 75, SpiderForest |-> 76, GreatMarsh |-> 77, FlayerJungle |-> 78,
    LowerKurast |-> 79, KurastBazaar |-> 80, UpperKurast |-> 81, KurastCauseway |-> 82,
    Travincal |-> 83, SpiderCave |-> 84, SpiderCavern |-> 85, SwampyPitLevel1 |-> 86,
    SwampyPitLevel2 |-> 87, FlayerDungeonLevel1 |-> 88, FlayerDungeonLevel2 |-> 89,
    SwampyPitLevel3 |-> 90, FlayerDungeonLevel3 |-> 91, SewersLevel1Act3 |-> 92,
    SewersLevel2Act3 |-> 93, RuinedTemple |-> 94, DisusedFane |-> 95,
    ForgottenReliquary |-> 96, ForgottenTemple |-> 97, RuinedFane |-> 98,
    DisusedReliquary |-> 99, DuranceOfHateLevel1 |-> 100, DuranceOfHateLevel2 |-> 101,
    DuranceOfHateLevel3 |-> 102, ThePandemoniumFortress |-> 103, OuterSteppes |-> 104,
    PlainsOfDespair |-> 105, CityOfTheDamned |-> 106, RiverOfFlame |-> 107,
    ChaosSanctuary |-> 108, Harrogath |-> 109, BloodyFoothills |-> 110,
    FrigidHighlands |-> 111, ArreatPlateau |-> 112, CrystallinePassage |-> 113,
    FrozenRiver |-> 114, GlacialTrail |-> 115, DrifterCavern |-> 116, FrozenTundra |-> 117,
    TheAncientsWay |-> 118, IcyCellar |-> 119, ArreatSummit |-> 120, NihlathaksTemple |-> 121,
    HallsOfAnguish |-> 122, HallsOfPain |-> 123, HallsOfVaught |-> 124, Abaddon |-> 125,
    PitOfAcheron |-> 126, InfernalPit |-> 127, TheWorldStoneKeepLevel1 |-> 128,
    TheWorldStoneKeepLevel2 |-> 129, TheWorldStoneKeepLevel3 |-> 130,
    ThroneOfDestruction |-> 131, TheWorldstoneChamber |-> 132 ]

Areas == DOMAIN AreaID

\* area.ID(0): the zero value returned when no area was found
NoArea == "None"

\* area.ID.Act(): the act is decided by the range the numeric ID falls in
Act(a) ==
  LET id == AreaID[a] IN
  IF id < 40 THEN 1
  ELSE IF id < 75 THEN 2
  ELSE IF id < 103 THEN 3
  ELSE IF id < 109 THEN 4
  ELSE 5

\* area.ID.IsTown()
IsTown(a) ==
  a \in {"RogueEncampment", "LutGholein", "KurastDocks", "ThePandemoniumFortress", "Harrogath"}

\* actTownWaypoints: act -> the town of the act
actTownWaypoints ==
  <<"RogueEncampment", "LutGholein", "KurastDocks", "ThePandemoniumFortress", "Harrogath">>

\* area.WPAddresses: the areas that hold a waypoint, each with its <<Tab, Row>>
\* in the waypoint menu
WPAddresses ==
  [ RogueEncampment |-> <<1, 1>>, ColdPlains |-> <<1, 2>>, StonyField |-> <<1, 3>>,
    DarkWood |-> <<1, 4>>, BlackMarsh |-> <<1, 5>>, OuterCloister |-> <<1, 6>>,
    JailLevel1 |-> <<1, 7>>, InnerCloister |-> <<1, 8>>, CatacombsLevel2 |-> <<1, 9>>,
    LutGholein |-> <<2, 1>>, SewersLevel2Act2 |-> <<2, 2>>, DryHills |-> <<2, 3>>,
    HallsOfTheDeadLevel2 |-> <<2, 4>>, FarOasis |-> <<2, 5>>, LostCity |-> <<2, 6>>,
    PalaceCellarLevel1 |-> <<2, 7>>, ArcaneSanctuary |-> <<2, 8>>,
    CanyonOfTheMagi |-> <<2, 9>>,
    KurastDocks |-> <<3, 1>>, SpiderForest |-> <<3, 2>>, GreatMarsh |-> <<3, 3>>,
    FlayerJungle |-> <<3, 4>>, LowerKurast |-> <<3, 5>>, KurastBazaar |-> <<3, 6>>,
    UpperKurast |-> <<3, 7>>, Travincal |-> <<3, 8>>, DuranceOfHateLevel2 |-> <<3, 9>>,
    ThePandemoniumFortress |-> <<4, 1>>, CityOfTheDamned |-> <<4, 2>>,
    RiverOfFlame |-> <<4, 3>>,
    Harrogath |-> <<5, 1>>, FrigidHighlands |-> <<5, 2>>, ArreatPlateau |-> <<5, 3>>,
    CrystallinePassage |-> <<5, 4>>, HallsOfPain |-> <<5, 5>>, GlacialTrail |-> <<5, 6>>,
    FrozenTundra |-> <<5, 7>>, TheAncientsWay |-> <<5, 8>>,
    TheWorldStoneKeepLevel2 |-> <<5, 9>> ]

\* the zero area.WPAddress{}
NoWPAddress == <<0, 0>>

(***************************************************************************)
(* area_adjacency.go: the static adjacency table, outgoing lists in the    *)
(* order of the source.                                                    *)
(***************************************************************************)
staticAreaAdjacency ==
  [ MooMooFarm |-> <<"RogueEncampment">>,
    RogueEncampment |-> <<"BloodMoor", "MooMooFarm">>,
    BloodMoor |-> <<"RogueEncampment", "ColdPlains", "DenOfEvil">>,
    ColdPlains |-> <<"BloodMoor", "StonyField", "CaveLevel1", "BurialGrounds">>,
    BurialGrounds |-> <<"ColdPlains", "Crypt", "Mausoleum">>,
    Crypt |-> <<"BurialGrounds">>,
    Mausoleum |-> <<"BurialGrounds">>,
    StonyField |-> <<"ColdPlains", "UndergroundPassageLevel1", "Tristram">>,
    Tristram |-> <<"StonyField">>,
    DarkWood |-> <<"BlackMarsh", "UndergroundPassageLevel1">>,
    BlackMarsh |-> <<"DarkWood", "TamoeHighland", "HoleLevel1", "ForgottenTower">>,
    TamoeHighland |-> <<"BlackMarsh", "MonasteryGate", "PitLevel1">>,
    MonasteryGate |-> <<"TamoeHighland", "OuterCloister">>,
    OuterCloister |-> <<"MonasteryGate", "Barracks">>,
    DenOfEvil |-> <<"BloodMoor">>,
    CaveLevel1 |-> <<"ColdPlains", "CaveLevel2">>,
    UndergroundPassageLevel1 |-> <<"StonyField", "DarkWood", "UndergroundPassageLevel2">>,
    HoleLevel1 |-> <<"BlackMarsh", "HoleLevel2">>,
    PitLevel1 |-> <<"TamoeHighland", "PitLevel2">>,
    CaveLevel2 |-> <<"CaveLevel1">>,
    UndergroundPassageLevel2 |-> <<"UndergroundPassageLevel1">>,
    HoleLevel2 |-> <<"HoleLevel1">>,
    PitLevel2 |-> <<"PitLevel1">>,
    ForgottenTower |-> <<"BlackMarsh", "TowerCellarLevel1">>,
    TowerCellarLevel1 |-> <<"ForgottenTower", "TowerCellarLevel2">>,
    TowerCellarLevel2 |-> <<"TowerCellarLevel1", "TowerCellarLevel3">>,
    TowerCellarLevel3 |-> <<"TowerCellarLevel2", "TowerCellarLevel4">>,
    TowerCellarLevel4 |-> <<"TowerCellarLevel3", "TowerCellarLevel5">>,
    TowerCellarLevel5 |-> <<"TowerCellarLevel4">>,
    Barracks |-> <<"OuterCloister", "JailLevel1">>,
    JailLevel1 |-> <<"Barracks", "JailLevel2">>,
    JailLevel2 |-> <<"JailLevel1", "JailLevel3">>,
    JailLevel3 |-> <<"JailLevel2", "InnerCloister">>,
    InnerCloister |-> <<"JailLevel3", "Cathedral">>,
    Cathedral |-> <<"InnerCloister", "CatacombsLevel1">>,
    CatacombsLevel1 |-> <<"Cathedral", "CatacombsLevel2">>,
    CatacombsLevel2 |-> <<"CatacombsLevel1", "CatacombsLevel3">>,
    CatacombsLevel3 |-> <<"CatacombsLevel2", "CatacombsLevel4">>,
    CatacombsLevel4 |-> <<"CatacombsLevel3">>,
    LutGholein |-> <<"RockyWaste", "SewersLevel1Act2", "HaremLevel1">>,
    RockyWaste |-> <<"LutGholein", "DryHills", "StonyTombLevel1">>,
    DryHills |-> <<"RockyWaste", "FarOasis", "HallsOfTheDeadLevel1">>,
    FarOasis |-> <<"DryHills", "LostCity", "MaggotLairLevel1">>,
    LostCity |-> <<"FarOasis", "ValleyOfSnakes", "AncientTunnels">>,
    ValleyOfSnakes |-> <<"LostCity", "ClawViperTempleLevel1">>,
    CanyonOfTheMagi |-> <<"TalRashasTomb1", "TalRashasTomb2", "TalRashasTomb3", "TalRashasTomb4", "TalRashasTomb5", "TalRashasTomb6", "TalRashasTomb7">>,
    SewersLevel1Act2 |-> <<"LutGholein", "SewersLevel2Act2">>,
    SewersLevel2Act2 |-> <<"SewersLevel1Act2", "SewersLevel3Act2">>,
    SewersLevel3Act2 |-> <<"SewersLevel2Act2">>,
    HaremLevel1 |-> <<"LutGholein", "HaremLevel2">>,
    HaremLevel2 |-> <<"HaremLevel1", "PalaceCellarLevel1">>,
    PalaceCellarLevel1 |-> <<"HaremLevel2", "PalaceCellarLevel2">>,
    PalaceCellarLevel2 |-> <<"PalaceCellarLevel1", "PalaceCellarLevel3">>,
    PalaceCellarLevel3 |-> <<"PalaceCellarLevel2", "ArcaneSanctuary">>,
    StonyTombLevel1 |-> <<"RockyWaste", "StonyTombLevel2">>,
    StonyTombLevel2 |-> <<"StonyTombLevel1">>,
    HallsOfTheDeadLevel1 |-> <<"DryHills", "HallsOfTheDeadLevel2">>,
    HallsOfTheDeadLevel2 |-> <<"HallsOfTheDeadLevel1", "HallsOfTheDeadLevel3">>,
    HallsOfTheDeadLevel3 |-> <<"HallsOfTheDeadLevel2">>,
    ClawViperTempleLevel1 |-> <<"ValleyOfSnakes", "ClawViperTempleLevel2">>,
    ClawViperTempleLevel2 |-> <<"ClawViperTempleLevel1">>,
    MaggotLairLevel1 |-> <<"FarOasis", "MaggotLairLevel2">>,
    MaggotLairLevel2 |-> <<"MaggotLairLevel1", "MaggotLairLevel3">>,
    MaggotLairLevel3 |-> <<"MaggotLairLevel2">>,
    AncientTunnels |-> <<"LostCity">>,
    TalRashasTomb1 |-> <<"CanyonOfTheMagi">>,
    TalRashasTomb2 |-> <<"CanyonOfTheMagi">>,
    TalRashasTomb3 |-> <<"CanyonOfTheMagi">>,
    TalRashasTomb4 |-> <<"CanyonOfTheMagi">>,
    TalRashasTomb5 |-> <<"CanyonOfTheMagi">>,
    TalRashasTomb6 |-> <<"CanyonOfTheMagi">>,
    TalRashasTomb7 |-> <<"CanyonOfTheMagi">>,
    ArcaneSanctuary |-> <<"PalaceCellarLevel3", "CanyonOfTheMagi">>,
    DuranceOfHateLevel1 |-> <<"Travincal", "DuranceOfHateLevel2">>,
    DuranceOfHateLevel2 |-> <<"DuranceOfHateLevel1", "DuranceOfHateLevel3">>,
    DuranceOfHateLevel3 |-> <<"DuranceOfHateLevel2", "ThePandemoniumFortress">>,
    KurastDocks |-> <<"SpiderForest">>,
    SpiderForest |-> <<"KurastDocks", "GreatMarsh", "FlayerJungle", "SpiderCave", "SpiderCavern">>,
    SpiderCave |-> <<"SpiderForest">>,
    SpiderCavern |-> <<"SpiderForest">>,
    GreatMarsh |-> <<"SpiderForest", "FlayerJungle">>,
    FlayerJungle |-> <<"SpiderForest", "GreatMarsh", "LowerKurast", "SwampyPitLevel1", "FlayerDungeonLevel1">>,
    SwampyPitLevel1 |-> <<"FlayerJungle", "SwampyPitLevel2">>,
    SwampyPitLevel2 |-> <<"SwampyPitLevel1", "SwampyPitLevel3">>,
    SwampyPitLevel3 |-> <<"SwampyPitLevel2">>,
    FlayerDungeonLevel1 |-> <<"FlayerJungle", "FlayerDungeonLevel2">>,
    FlayerDungeonLevel2 |-> <<"FlayerDungeonLevel1", "FlayerDungeonLevel3">>,
    FlayerDungeonLevel3 |-> <<"FlayerDungeonLevel2">>,
    LowerKurast |-> <<"FlayerJungle", "KurastBazaar">>,
    KurastBazaar |-> <<"LowerKurast", "UpperKurast", "RuinedTemple", "SewersLevel1Act3", "DisusedFane">>,
    RuinedTemple |-> <<"KurastBazaar">>,
    DisusedFane |-> <<"KurastBazaar">>,
    SewersLevel1Act3 |-> <<"KurastBazaar", "UpperKurast", "SewersLevel2Act3">>,
    SewersLevel2Act3 |-> <<"SewersLevel1Act3">>,
    UpperKurast |-> <<"KurastBazaar", "KurastCauseway", "SewersLevel1Act3", "ForgottenTemple", "ForgottenReliquary">>,
    ForgottenTemple |-> <<"UpperKurast">>,
    ForgottenReliquary |-> <<"UpperKurast">>,
    KurastCauseway |-> <<"UpperKurast", "Travincal", "RuinedFane", "DisusedReliquary">>,
    RuinedFane |-> <<"KurastCauseway">>,
    DisusedReliquary |-> <<"KurastCauseway">>,
    Travincal |-> <<"KurastCauseway", "DuranceOfHateLevel1">>,
    ThePandemoniumFortress |-> <<"OuterSteppes">>,
    OuterSteppes |-> <<"ThePandemoniumFortress", "PlainsOfDespair">>,
    PlainsOfDespair |-> <<"OuterSteppes", "CityOfTheDamned">>,
    CityOfTheDamned |-> <<"PlainsOfDespair", "RiverOfFlame">>,
    RiverOfFlame |-> <<"CityOfTheDamned", "ChaosSanctuary">>,
    ChaosSanctuary |-> <<"RiverOfFlame">>,
    CrystallinePassage |-> <<"ArreatPlateau", "FrozenRiver", "GlacialTrail">>,
    GlacialTrail |-> <<"CrystallinePassage", "DrifterCavern", "FrozenTundra">>,
    FrozenRiver |-> <<"CrystallinePassage">>,
    DrifterCavern |-> <<"GlacialTrail">>,
    FrozenTundra |-> <<"GlacialTrail", "TheAncientsWay", "InfernalPit">>,
    InfernalPit |-> <<"FrozenTundra">>,
    TheAncientsWay |-> <<"FrozenTundra", "IcyCellar", "ArreatSummit">>,
    IcyCellar |-> <<"TheAncientsWay">>,
    ArreatSummit |-> <<"TheAncientsWay", "TheWorldStoneKeepLevel1">>,
    Harrogath |-> <<"BloodyFoothills", "NihlathaksTemple">>,
    BloodyFoothills |-> <<"Harrogath", "FrigidHighlands">>,
    FrigidHighlands |-> <<"BloodyFoothills", "ArreatPlateau", "Abaddon">>,
    Abaddon |-> <<"FrigidHighlands">>,
    ArreatPlateau |-> <<"FrigidHighlands", "CrystallinePassage", "PitOfAcheron">>,
    PitOfAcheron |-> <<"ArreatPlateau">>,
    NihlathaksTemple |-> <<"Harrogath", "HallsOfAnguish">>,
    HallsOfAnguish |-> <<"NihlathaksTemple", "HallsOfPain">>,
    HallsOfPain |-> <<"HallsOfAnguish", "HallsOfVaught">>,
    HallsOfVaught |-> <<"HallsOfPain">>,
    TheWorldStoneKeepLevel1 |-> <<"ArreatSummit", "TheWorldStoneKeepLevel2">>,
    TheWorldStoneKeepLevel2 |-> <<"TheWorldStoneKeepLevel1", "TheWorldStoneKeepLevel3">>,
    TheWorldStoneKeepLevel3 |-> <<"TheWorldStoneKeepLevel2", "ThroneOfDestruction">>,
    ThroneOfDestruction |-> <<"TheWorldStoneKeepLevel3">> ]

\* CanReachNihlathakTempleFrom
CanReachNihlathakTempleFrom == <<"HallsOfAnguish", "HallsOfPain", "HallsOfVaught">>

\* an empty Go map
EmptyMap == [x \in {} |-> x]

\* the elements of a slice, as a set
Range(s) == {s[i] : i \in DOMAIN s}

\* Op applied to the value of v, which is computed once
Bind(v, Op(_)) == CHOOSE r \in {Op(x) : x \in {v}} : TRUE

\* staticNeighbors / adjacencyList: a copy of the outgoing list (nil for an
\* area that is no key of the table)
staticNeighbors(id) ==
  IF id \in DOMAIN staticAreaAdjacency THEN staticAreaAdjacency[id] ELSE <<>>

\* buildStaticPath: walk the predecessor map back from goal to start
RECURSIVE buildStaticPathFrom(_, _, _, _)
buildStaticPathFrom(prev, start, current, path) ==
  IF current = start THEN path
  ELSE IF current \notin DOMAIN prev THEN <<>>
  ELSE buildStaticPathFrom(prev, start, prev[current], <<prev[current]>> \o path)

buildStaticPath(prev, start, goal) == buildStaticPathFrom(prev, start, goal, <<goal>>)

\* the inner loop leaving the scan at the first neighbour already visited
\* (break for continue at line 236)
RECURSIVE staticPathNeighborsBreak(_, _, _, _, _, _, _)
staticPathNeighborsBreak(nbrs, i, current, goal, queue, visited, prev) ==
  IF i > Len(nbrs)
  THEN [found |-> FALSE, queue |-> queue, visited |-> visited, prev |-> prev]
  ELSE LET next == nbrs[i] IN
       IF next \in visited
       THEN [found |-> FALSE, queue |-> queue, visited |-> visited, prev |-> prev]
       ELSE LET prev2 == (next :> current) @@ prev IN
            IF next = goal
            THEN [found |-> TRUE, queue |-> queue,
                  visited |-> visited \cup {next}, prev |-> prev2]
            ELSE Bind([queue |-> Append(queue, next), visited |-> visited \cup {next},
                       prev |-> prev2],
                      LAMBDA s : staticPathNeighborsBreak(nbrs, i + 1, current, goal,
                                                          s.queue, s.visited, s.prev))

\* the inner loop of staticAreaPath over the neighbours of current, from index i
RECURSIVE staticPathNeighbors(_, _, _, _, _, _, _)
staticPathNeighbors(nbrs, i, current, goal, queue, visited, prev) ==
  IF i > Len(nbrs)
  THEN [found |-> FALSE, queue |-> queue, visited |-> visited, prev |-> prev]
  ELSE LET next == nbrs[i] IN
       IF next \in visited
       THEN staticPathNeighbors(nbrs, i + 1, current, goal, queue, visited, prev)
       ELSE LET prev2 == (next :> current) @@ prev IN
            IF next = goal
            THEN [found |-> TRUE, queue |-> queue,
                  visited |-> visited \cup {next}, prev |-> prev2]
            ELSE Bind([queue |-> Append(queue, next), visited |-> visited \cup {next},
                       prev |-> prev2],
                      LAMBDA s : staticPathNeighbors(nbrs, i + 1, current, goal, s.queue,
                                                     s.visited, s.prev))

\* one turn of the outer loop of staticAreaPath: pop the head of the queue
\* and scan its neighbours; done once the goal is met or the queue is empty
staticPathStep(st, start, goal) ==
  IF st.done THEN st
  ELSE IF st.queue = <<>>
  THEN [st EXCEPT !.done = TRUE]
  ELSE Bind(staticPathNeighbors(staticNeighbors(Head(st.queue)), 1, Head(st.queue), goal,
                                 Tail(st.queue), st.visited, st.prev),
            LAMBDA r : IF r.found
                       THEN [st EXCEPT !.done = TRUE, !.ok = TRUE,
                                       !.path = buildStaticPath(r.prev, start, goal)]
                       ELSE [st EXCEPT !.queue = r.queue, !.visited = r.visited,
                                       !.prev = r.prev])

\* n turns of the outer loop, the first half and then the second
RECURSIVE staticPathLoop(_, _, _, _)
staticPathLoop(st, start, goal, n) ==
  IF st.done \/ n = 0
  THEN st
  ELSE IF n = 1
  THEN staticPathStep(st, start, goal)
  ELSE Bind(staticPathLoop(st, start, goal, n \div 2), LAMBDA mid :
         staticPathLoop(mid, start, goal, n - (n \div 2)))

\* staticAreaPath: breadth-first search over the static table only; every
\* area enters the queue at most once, so the loop ends within as many turns
\* as there are areas, and one more
staticAreaPath(start, goal) ==
  IF start = goal
  THEN [path |-> <<start>>, ok |-> TRUE]
  ELSE Bind(staticPathLoop([queue |-> <<start>>, visited |-> {start}, prev |-> EmptyMap,
                            done |-> FALSE, ok |-> FALSE, path |-> <<>>],
                           start, goal, Cardinality(Areas) + 1),
            LAMBDA st : [path |-> st.path, ok |-> st.ok])

(***************************************************************************)
(* waypoint.go: nearestWaypointArea.  wpMap is availableWaypointMap(ctx),  *)
(* the set of the avatar's available waypoints; playerArea is              *)
(* ctx.Data.PlayerUnit.Area.                                               *)
(***************************************************************************)
\* the inner loop of nearestWaypointArea without the test of the act
RECURSIVE nearestWaypointNeighborsAnyAct(_, _, _, _, _, _)
nearestWaypointNeighborsAnyAct(nbrs, i, act, wpMap, queue, visited) ==
  IF i > Len(nbrs)
  THEN [found |-> FALSE, area |-> NoArea, queue |-> queue, visited |-> visited]
  ELSE LET next == nbrs[i] IN
       IF next = NoArea \/ next \in visited
       THEN nearestWaypointNeighborsAnyAct(nbrs, i + 1, act, wpMap, queue, visited)
       ELSE IF next \in DOMAIN WPAddresses /\ next \in wpMap
       THEN [found |-> TRUE, area |-> next, queue |-> queue,
             visited |-> visited \cup {next}]
       ELSE Bind([queue |-> Append(queue, next), visited |-> visited \cup {next}],
                 LAMBDA s : nearestWaypointNeighborsAnyAct(nbrs, i + 1, act, wpMap,
                                                           s.queue, s.visited))

\* the inner loop of nearestWaypointArea over the neighbours of one area
RECURSIVE nearestWaypointNeighbors(_, _, _, _, _, _)
nearestWaypointNeighbors(nbrs, i, act, wpMap, queue, visited) ==
  IF i > Len(nbrs)
  THEN [found |-> FALSE, area |-> NoArea, queue |-> queue, visited |-> visited]
  ELSE LET next == nbrs[i] IN
       IF next = NoArea \/ Act(next) # act
       THEN nearestWaypointNeighbors(nbrs, i + 1, act, wpMap, queue, visited)
       ELSE IF next \in visited
       THEN nearestWaypointNeighbors(nbrs, i + 1, act, wpMap, queue, visited)
       ELSE IF next \in DOMAIN WPAddresses /\ next \in wpMap
       THEN [found |-> TRUE, area |-> next, queue |-> queue,
             visited |-> visited \cup {next}]
       ELSE Bind([queue |-> Append(queue, next), visited |-> visited \cup {next}],
                 LAMBDA s : nearestWaypointNeighbors(nbrs, i + 1, act, wpMap, s.queue,
                                                     s.visited))

\* the outer loop of nearestWaypointArea
RECURSIVE nearestWaypointLoop(_, _, _, _)
nearestWaypointLoop(queue, visited, act, wpMap) ==
  IF queue = <<>>
  THEN NoArea
  ELSE Bind(nearestWaypointNeighbors(staticNeighbors(Head(queue)), 1, act, wpMap,
                                      Tail(queue), visited),
            LAMBDA r : IF r.found THEN r.area
                       ELSE nearestWaypointLoop(r.queue, r.visited, act, wpMap))

\* a search that lets the caller walk whatever the acts are
nearestWaypointAreaWalkAnyAct(playerArea, wpMap, dest) ==
  IF dest \in DOMAIN WPAddresses /\ dest \in wpMap
  THEN [area |-> dest, wpCoords |-> WPAddresses[dest], hasWP |-> TRUE, err |-> "nil"]
  ELSE LET found == nearestWaypointLoop(<<dest>>, {dest}, Act(dest), wpMap) IN
       IF found # NoArea
       THEN [area |-> found, wpCoords |-> WPAddresses[found], hasWP |-> TRUE,
             err |-> "nil"]
       ELSE [area |-> NoArea, wpCoords |-> NoWPAddress, hasWP |-> FALSE, err |-> "nil"]

\* nearestWaypointArea: (area, address, hasWP, err)
nearestWaypointArea(playerArea, wpMap, dest) ==
  IF dest \in DOMAIN WPAddresses /\ dest \in wpMap
  THEN [area |-> dest, wpCoords |-> WPAddresses[dest], hasWP |-> TRUE, err |-> "nil"]
  ELSE LET found == nearestWaypointLoop(<<dest>>, {dest}, Act(dest), wpMap) IN
       IF found # NoArea
       THEN [area |-> found, wpCoords |-> WPAddresses[found], hasWP |-> TRUE,
             err |-> "nil"]
       ELSE IF Act(dest) = Act(playerArea)
       THEN [area |-> NoArea, wpCoords |-> NoWPAddress, hasWP |-> FALSE, err |-> "nil"]
       ELSE [area |-> NoArea, wpCoords |-> NoWPAddress, hasWP |-> FALSE,
             err |-> "failed to locate a waypoint"]

(***************************************************************************)
(* move.go: the weighted area route.  Costs are kept in tenths, so that    *)
(* the source's 1.0, 0.1, 1.0 and 0.5 are the integers 10, 1, 10 and 5.    *)
(* ctx is the part of the snapshot the route reads: Area is                *)
(* PlayerUnit.Area, AvailableWaypoints the discovered waypoints,           *)
(* AdjacentLevels the adjacent levels the snapshot reports, as pairs       *)
(* <<area, adjacent area>>, CanTeleport the capability, and MapOrder the   *)
(* order in which Go happens to iterate its maps, which decides the order  *)
(* of equal priorities in the heap.                                        *)
(***************************************************************************)
adjacencyCost == 10
waypointTeleportPenalty == 1
waypointNoTeleportPenalty == 10
townPortalPenalty == 5

\* waypointTransitionCost
waypointTransitionCost(canTeleportNow, toTown) ==
  IF toTown THEN adjacencyCost + townPortalPenalty
  ELSE IF canTeleportNow THEN adjacencyCost + waypointTeleportPenalty
  ELSE adjacencyCost + waypointNoTeleportPenalty

\* availableWaypointMap
availableWaypointMap(ctx) == ctx.AvailableWaypoints

\* collectWaypointNeighbors without the test that id itself is an available
\* waypoint
collectWaypointNeighborsFromAnywhere(id, wpMap) ==
  (wpMap \ {id})
    \cup (IF actTownWaypoints[Act(id)] # id THEN {actTownWaypoints[Act(id)]} ELSE {})

\* collectWaypointNeighbors: every other available waypoint when id is one,
\* and the town of id's act from every area
collectWaypointNeighbors(id, wpMap) ==
  (IF id \in wpMap THEN wpMap \ {id} ELSE {})
    \cup (IF actTownWaypoints[Act(id)] # id THEN {actTownWaypoints[Act(id)]} ELSE {})

\* the neighbours the snapshot alone reports
collectNeighborsDynamicOnly(ctx, id) ==
  {p[2] : p \in {q \in ctx.AdjacentLevels : q[1] = id}}

\* collectNeighbors: the adjacent levels of the snapshot joined with the
\* static table
collectNeighbors(ctx, id) ==
  {p[2] : p \in {q \in ctx.AdjacentLevels : q[1] = id}} \cup Range(staticNeighbors(id))

\* areaNeighborsWithCosts: the dedup map neighbour -> cost
areaNeighborsWithCosts(ctx, id, wpMap, allowWaypoints) ==
  LET phys == collectNeighbors(ctx, id)
      wps == IF allowWaypoints THEN collectWaypointNeighbors(id, wpMap) ELSE {}
      wpCost(n) == waypointTransitionCost(ctx.CanTeleport, n = actTownWaypoints[Act(id)])
  IN [n \in phys \cup wps |->
        IF n \notin wps THEN adjacencyCost
        ELSE IF n \in phys /\ ~(wpCost(n) < adjacencyCost) THEN adjacencyCost
        ELSE wpCost(n)]

\* a pop that takes an item of greatest priority
areaQueuePopGreatest(queue, mapOrder) ==
  CHOOSE i \in queue : \A j \in queue : i.priority >= j.priority

\* heap.Pop on areaQueue: an item of least priority; among equal priorities
\* the order depends on the push order, hence on the map order
areaQueuePop(queue, mapOrder) ==
  LET least == {i \in queue : \A j \in queue : i.priority <= j.priority} IN
  CHOOSE i \in least :
    \A j \in least : IF mapOrder = "asc" THEN AreaID[i.area] <= AreaID[j.area]
                     ELSE AreaID[i.area] >= AreaID[j.area]

\* one relaxation of weightedAreaPath (lines 658-665): the neighbours that gain
\* a better cost get the cost and the predecessor, and are pushed
weightedAreaRelax(st, rest, current, nb) ==
  Bind({n \in DOMAIN nb : n \notin DOMAIN st.dist \/ current.priority + nb[n] < st.dist[n]},
       LAMBDA better :
         [dist |-> [n \in better |-> current.priority + nb[n]] @@ st.dist,
          prev |-> [n \in better |-> current.area] @@ st.prev,
          queue |-> rest \cup {[area |-> n, priority |-> current.priority + nb[n]] :
                                 n \in better},
          done |-> FALSE])

\* one iteration of the loop of weightedAreaPath on st = (dist, prev, queue):
\* Dijkstra's algorithm with lazy deletion; done once the queue is empty or
\* the goal is popped
weightedAreaStep(ctx, goal, wpMap, allowWaypoints, st) ==
  IF st.queue = {}
  THEN [st EXCEPT !.done = TRUE]
  ELSE Bind(areaQueuePop(st.queue, ctx.MapOrder), LAMBDA current :
         IF current.area = goal
         THEN [st EXCEPT !.done = TRUE]
         ELSE IF current.priority > st.dist[current.area]
         THEN [st EXCEPT !.queue = st.queue \ {current}]
         ELSE Bind(areaNeighborsWithCosts(ctx, current.area, wpMap, allowWaypoints),
                   LAMBDA nb : weightedAreaRelax(st, st.queue \ {current}, current, nb)))

\* every item pushed has a cost below the one its area had: the queue is
\* popped less often than this
MaxQueuePops == 1024

\* the loop of weightedAreaPath: up to n iterations from st, the first half of
\* them and then the rest
RECURSIVE weightedAreaLoop(_, _, _, _, _, _)
weightedAreaLoop(ctx, goal, wpMap, allowWaypoints, st, n) ==
  IF st.done \/ n = 0
  THEN st
  ELSE IF n = 1
  THEN weightedAreaStep(ctx, goal, wpMap, allowWaypoints, st)
  ELSE Bind(weightedAreaLoop(ctx, goal, wpMap, allowWaypoints, st, n \div 2), LAMBDA mid :
         weightedAreaLoop(ctx, goal, wpMap, allowWaypoints, mid, n - (n \div 2)))

\* reconstructAreaPath
RECURSIVE reconstructAreaPathFrom(_, _, _, _)
reconstructAreaPathFrom(prev, start, current, path) ==
  IF current = start \/ current \notin DOMAIN prev
  THEN (IF path[1] # start THEN <<start>> \o path ELSE path)
  ELSE reconstructAreaPathFrom(prev, start, prev[current], <<prev[current]>> \o path)

reconstructAreaPath(prev, start, goal) ==
  reconstructAreaPathFrom(prev, start, goal, <<goal>>)

\* weightedAreaPath: (path, ok)
weightedAreaPath(ctx, start, goal, allowWaypoints) ==
  IF start = goal
  THEN [path |-> <<start>>, ok |-> TRUE]
  ELSE LET wpMap == IF allowWaypoints THEN availableWaypointMap(ctx) ELSE {}
           r == weightedAreaLoop(ctx, goal, wpMap, allowWaypoints,
                                 [dist |-> (start :> 0), prev |-> EmptyMap,
                                  queue |-> {[area |-> start, priority |-> 0]},
                                  done |-> FALSE], MaxQueuePops)
       IN IF goal \notin DOMAIN r.dist
          THEN [path |-> <<>>, ok |-> FALSE]
          ELSE [path |-> reconstructAreaPath(r.prev, start, goal), ok |-> TRUE]

\* buildAreaRouteWithWaypoints: (route, err)
buildAreaRouteWithWaypoints(ctx, dst, allowWaypoints) ==
  IF ctx.Area = dst
  THEN [route |-> <<dst>>, err |-> "nil"]
  ELSE LET r == weightedAreaPath(ctx, ctx.Area, dst, allowWaypoints) IN
       IF ~r.ok
       THEN [route |-> <<>>, err |-> "destination area not found"]
       ELSE [route |-> r.path, err |-> "nil"]

\* buildAreaRoute
buildAreaRoute(ctx, dst) == buildAreaRouteWithWaypoints(ctx, dst, TRUE)

(***************************************************************************)
(* State.  The snapshot (ctx.Data) and, for each procedure, its locals and *)
(* its position.                                                           *)
(***************************************************************************)
VARIABLES
  playerArea,          \* ctx.Data.PlayerUnit.Area
  availableWaypoints,  \* ctx.Data.PlayerUnit.AvailableWaypoints
  adjacentLevels,      \* AdjacentLevels of the area data, as <<area, adjacent>>
  canTeleport,         \* ctx.Data.CanTeleport()
  mapOrder,            \* the iteration order of Go's maps in this run
  routeDst,            \* buildAreaRoute: the destination asked for
  route,               \* buildAreaRoute: the route returned
  routeErr,            \* buildAreaRoute: the error returned
  searchDest,          \* nearestWaypointArea: the destination asked for
  searchResult,        \* nearestWaypointArea: (area, wpCoords, hasWP, err)
  wayPc,               \* WayPoint: the position in the procedure
  wayDest,             \* WayPoint: dest
  wayCalledIn,         \* WayPoint: PlayerUnit.Area when it was called
  waySearch,           \* WayPoint: wpArea, wpCoords, hasWP, err of the search
  wayPath,             \* traverseRemainder: path
  wayIdx,              \* traverseRemainder: i
  wayVerify,           \* WayPoint: whether verifyArrival follows the traversal
  wayErr,              \* WayPoint: the error returned ("none" until it returns)
  wayLog,              \* WayPoint: what the call has done so far
  mtaPc,               \* MoveToArea: the position in the procedure
  mtaDst,              \* MoveToArea: dst
  hops,                \* MoveToArea: hops
  mtaSingles,          \* MoveToArea: the moveToAreaSingle calls of its loop so far
  mtaErr,              \* MoveToArea: the error returned ("none" until it returns)
  entPc,                 \* InteractEntranceMouse: the position in the procedure
  interactionAttempts,   \* InteractEntranceMouse: interactionAttempts
  attempts,              \* InteractEntranceMouse: attempts
  waitingForInteraction, \* InteractEntranceMouse: waitingForInteraction
  lastRun,               \* InteractEntranceMouse: whether lastRun was set
  lastEntranceLevel,     \* InteractEntranceMouse: lastEntranceLevel
  alternativeIndex,      \* InteractEntranceMouse: alternativeIndex
  entEvents,             \* InteractEntranceMouse: the inputs of the last iteration
  entErr,                \* InteractEntranceMouse: the error returned
  alternativeMoves,      \* InteractEntranceMouse: the entrance position alternativeMoves surround (0: empty)
  entUsed,               \* InteractEntranceMouse: l.Position in the last iteration (0: it chose no l)
  entTurn,               \* InteractEntranceMouse: the iterations of the loop so far, modulo 2
  mvPc,                          \* MoveTo: the position in the procedure
  mvCall,                        \* MoveTo: the options and configuration of the call
  shrine,                        \* MoveTo: shrine (its ID)
  chest,                         \* MoveTo: chest (its ID)
  blacklistedInteractions,       \* MoveTo: blacklistedInteractions
  stuck,                         \* MoveTo: stuck
  adjustMinDist,                 \* MoveTo: adjustMinDist
  pathFound,                     \* MoveTo: pathFound
  previousTargetPosition,        \* MoveTo: previousTargetPosition
  actionLastMonsterHandlingTime, \* MoveTo: whether actionLastMonsterHandlingTime was set
  blacklistedPads,               \* MoveTo: the pads in blacklistedPads
  tpPad,                         \* MoveTo: tpPad of line 959 (its ID)
  mvDead,                        \* MoveTo: IsDead() in the snapshot of the last iteration
  mvRecomputed,                  \* MoveTo: the last iteration computed the path (line 1058)
  mvPad,                         \* MoveTo: the pad line 1067 received in the last iteration
  mvMoveErr,                     \* MoveTo: moveErr of the last iteration ("none" without a step)
  mvPath,                        \* MoveTo: len(path)
  mvTicks,                       \* MoveTo: the iterations of the loop so far
  mvEvents,                      \* MoveTo: what the last iteration did
  mvOffered,                     \* MoveTo: the shrine and the chest the last snapshot offered
  mvChoice,                      \* MoveTo: the cooldown and the enemies the last iteration saw, its shrine, chest and target at line 1053
  mvNear,                        \* MoveTo: the avatar has not left the place of the call
  mvMenusClosed,                 \* MoveTo: the call closed menus before its loop
  mvErr,                         \* MoveTo: the error returned ("none" until it returns)
  selPc,  \* selectWaypoint: the position in the procedure
  selDest,  \* selectWaypoint: dest
  selTries,  \* selectWaypoint: the iterations of its loop started so far
  selMenu,  \* selectWaypoint: ctx.Data.OpenMenus.Waypoint
  selLog,  \* selectWaypoint: the clicks of the call, in order
  selErr, \* selectWaypoint: the error returned ("none" until it returns)
  gridPass,  \* grid builder: the function that was called ("none" before the call)
  builder,  \* grid builder: the variant of the source file, "part_001" or "part_002"
  gridRaw,  \* grid builder: the collision matrix as it was handed to the call
  gridCells,  \* grid builder: the collision matrix (the call works on it in place)
  gridPanic,  \* grid builder: the call indexed outside the matrix
  gridArgs,  \* grid builder: the other arguments of the call
  gridResult, \* grid builder: the *Grid returned (NoGrid when the call returns none)
  running,  \* DebugOverlay: po.running
  poServer,  \* DebugOverlay: po.server (guarded by po.mu)
  poWindow,  \* DebugOverlay: po.window (guarded by po.mu)
  serversMade,  \* DebugOverlay: the overlay servers created so far
  serversAlive,  \* DebugOverlay: the servers created and not stopped
  windowsMade,  \* DebugOverlay: the windows created so far
  windowsOpen,  \* DebugOverlay: the windows created and not terminated or closed
  ovPc,  \* DebugOverlay: the position of each calling goroutine
  ovLocal,  \* DebugOverlay: the locals server and window of each calling goroutine
  ovCalls,  \* DebugOverlay: the calls made so far
  winPc,  \* DebugOverlay: the position of the goroutine of each window
  winLocal, \* DebugOverlay: the local server of the goroutine of each window
  overlayInstances,  \* Instance: the map overlayInstances, from context to overlay
  instPc,  \* Instance: the position of each calling goroutine
  instLocal,  \* Instance: key and po of each calling goroutine
  instCalls,  \* Instance: the calls made so far
  instMade,  \* Instance: the DebugOverlay objects created so far
  instReturned, \* Instance: the pairs of key and overlay the calls have returned
  payPc,  \* collectData: "idle" before the call, "done" after it
  dataSnapshot,  \* collectData: po.ctx.Data as the call reads it
  payload, \* collectData: the payload returned, its tiles as their number
  syncPc,  \* ensureAreaSync: "idle", "loop" between two polls, "done"
  syncExpected,  \* ensureAreaSync: expectedArea
  syncDead,  \* ensureAreaSync: ctx.Data.PlayerUnit.IsDead() of the snapshot
  syncAttempts,  \* ensureAreaSync: attempts
  syncObserved,  \* ensureAreaSync: the areas the calls of RefreshGameData have shown
  syncErr, \* ensureAreaSync: the error returned
  nestPc,  \* the function of the frame on top: "idle", "MoveToArea", "moveToAreaSingle", "done"
  nestEntry,  \* the function the caller called
  nestDst,  \* its destination
  nestFrames,  \* the frames opened, counted 1..MaxFrames and over again
  nestSeen,  \* what the frame on top last did
  nestErr, \* the error the outermost call returned
  pathStart,  \* staticAreaPath: start
  pathGoal,  \* staticAreaPath: goal
  pathResult  \* staticAreaPath: the path and the flag returned

snapVars == <<playerArea, availableWaypoints, adjacentLevels, canTeleport, mapOrder>>
routeVars == <<routeDst, route, routeErr>>
searchVars == <<searchDest, searchResult>>
wayVars ==
  <<wayPc, wayDest, wayCalledIn, waySearch, wayPath, wayIdx, wayVerify, wayErr, wayLog>>
mtaVars == <<mtaPc, mtaDst, hops, mtaSingles, mtaErr>>
entVars ==
  <<entPc, interactionAttempts, attempts, waitingForInteraction, lastRun,
    lastEntranceLevel, alternativeIndex, entEvents, entErr, alternativeMoves, entUsed,
    entTurn>>
mvVars ==
  <<mvPc, mvCall, shrine, chest, blacklistedInteractions, stuck, adjustMinDist,
    pathFound, previousTargetPosition, actionLastMonsterHandlingTime,
    blacklistedPads, tpPad, mvDead, mvRecomputed, mvPad, mvMoveErr, mvPath,
    mvTicks, mvEvents, mvOffered, mvChoice, mvNear, mvMenusClosed, mvErr>>
selVars == <<selPc, selDest, selTries, selMenu, selLog, selErr>>
gridVars == <<gridPass, builder, gridRaw, gridCells, gridPanic, gridArgs, gridResult>>
overlayVars == <<running, poServer, poWindow, serversMade, serversAlive, windowsMade, windowsOpen, ovPc, ovLocal, ovCalls, winPc, winLocal>>
instVars == <<overlayInstances, instPc, instLocal, instCalls, instMade, instReturned>>
payVars == <<payPc, dataSnapshot, payload>>
syncVars == <<syncPc, syncExpected, syncDead, syncAttempts, syncObserved, syncErr>>
nestVars == <<nestPc, nestEntry, nestDst, nestFrames, nestSeen, nestErr>>
pathVars == <<pathStart, pathGoal, pathResult>>
vars == <<snapVars, routeVars, searchVars, wayVars, mtaVars, entVars, mvVars, selVars, gridVars, overlayVars, instVars, payVars, syncVars, nestVars, pathVars>>

\* the variables of the other procedures, for each procedure
otherThanRoute == <<searchVars, wayVars, mtaVars, entVars, mvVars, selVars, gridVars, overlayVars, instVars, payVars, syncVars, nestVars, pathVars>>
otherThanSearch == <<routeVars, wayVars, mtaVars, entVars, mvVars, selVars, gridVars, overlayVars, instVars, payVars, syncVars, nestVars, pathVars>>
otherThanWay == <<routeVars, searchVars, mtaVars, entVars, mvVars, selVars, gridVars, overlayVars, instVars, payVars, syncVars, nestVars, pathVars>>
otherThanMta == <<searchVars, wayVars, entVars, mvVars, selVars, gridVars, overlayVars, instVars, payVars, syncVars, nestVars, pathVars>>
otherThanEnt == <<routeVars, searchVars, wayVars, mtaVars, mvVars, selVars, gridVars, overlayVars, instVars, payVars, syncVars, nestVars, pathVars>>
otherThanMove == <<routeVars, searchVars, wayVars, mtaVars, entVars, selVars, gridVars, overlayVars, instVars, payVars, syncVars, nestVars, pathVars>>
otherThanSel == <<routeVars, searchVars, wayVars, mtaVars, entVars, mvVars, gridVars, overlayVars, instVars, payVars, syncVars, nestVars, pathVars>>
otherThanGrid == <<routeVars, searchVars, wayVars, mtaVars, entVars, mvVars, selVars, overlayVars, instVars, payVars, syncVars, nestVars, pathVars>>
otherThanOverlay == <<routeVars, searchVars, wayVars, mtaVars, entVars, mvVars, selVars, gridVars, instVars, payVars, syncVars, nestVars, pathVars>>
otherThanInstance == <<routeVars, searchVars, wayVars, mtaVars, entVars, mvVars, selVars, gridVars, overlayVars, payVars, syncVars, nestVars, pathVars>>
otherThanPayload == <<routeVars, searchVars, wayVars, mtaVars, entVars, mvVars, selVars, gridVars, overlayVars, instVars, syncVars, nestVars, pathVars>>
otherThanSync == <<routeVars, searchVars, wayVars, mtaVars, entVars, mvVars, selVars, gridVars, overlayVars, instVars, payVars, nestVars, pathVars>>
otherThanNest == <<routeVars, searchVars, wayVars, mtaVars, entVars, mvVars, selVars, gridVars, overlayVars, instVars, payVars, syncVars, pathVars>>
otherThanPath == <<routeVars, searchVars, wayVars, mtaVars, entVars, mvVars, selVars, gridVars, overlayVars, instVars, payVars, syncVars, nestVars>>

\* the snapshot as the route operators read it
ctxData ==
  [Area |-> playerArea, AvailableWaypoints |-> availableWaypoints,
   AdjacentLevels |-> adjacentLevels, CanTeleport |-> canTeleport, MapOrder |-> mapOrder]

\* the subsets of S with at most n elements
SubsetsUpTo(S, n) == {T \in SUBSET S : Cardinality(T) <= n}

(***************************************************************************)
(* Bounds of the snapshots explored.                                       *)
(***************************************************************************)
MaxWaypoints == 2      \* discovered waypoints in a snapshot
MaxAdjacent == 1       \* adjacent levels the snapshot adds to the static table

\* the waypoints a snapshot may hold
WaypointPool ==
  {"RogueEncampment", "ColdPlains", "InnerCloister", "CanyonOfTheMagi", "RiverOfFlame"}

\* the adjacent levels a snapshot may report beyond the static table
AdjacentPool ==
  {<<"TalRashasTomb1", "DurielsLair">>, <<"CanyonOfTheMagi", "ArcaneSanctuary">>}

\* the areas the avatar starts a route in, and the destinations asked for
RouteStarts == {"BloodMoor", "Cathedral", "StonyField", "ArcaneSanctuary", "ColdPlains"}
RouteGoals == {"Cathedral", "ColdPlains", "DurielsLair", "ChaosSanctuary", "LutGholein"}

SnapshotInit ==
  /\ availableWaypoints \in SubsetsUpTo(WaypointPool, MaxWaypoints)
  /\ adjacentLevels \in SubsetsUpTo(AdjacentPool, MaxAdjacent)
  /\ canTeleport \in BOOLEAN
  /\ mapOrder \in {"asc", "desc"}

RouteIdle ==
  /\ routeDst = NoArea
  /\ route = <<>>
  /\ routeErr = "nil"

\* the result of a search that was not made
NoSearch == [area |-> NoArea, wpCoords |-> NoWPAddress, hasWP |-> FALSE, err |-> "nil"]

SearchIdle ==
  /\ searchDest = NoArea
  /\ searchResult = NoSearch

WayIdle ==
  /\ wayPc = "idle"
  /\ wayDest = NoArea
  /\ wayCalledIn = NoArea
  /\ waySearch = NoSearch
  /\ wayPath = <<>>
  /\ wayIdx = 1
  /\ wayVerify = FALSE
  /\ wayErr = "none"
  /\ wayLog = {}

MtaIdle ==
  /\ mtaPc = "idle"
  /\ mtaDst = NoArea
  /\ hops = 0
  /\ mtaSingles = 0
  /\ mtaErr = "none"

\* data.Level{}: no level
NoLevel == [pos |-> 0, isEntrance |-> FALSE, area |-> NoArea]

EntIdle ==
  /\ entPc = "idle"
  /\ interactionAttempts = 1
  /\ attempts = 0
  /\ waitingForInteraction = FALSE
  /\ lastRun = "zero"
  /\ lastEntranceLevel = NoLevel
  /\ alternativeIndex = 0
  /\ entEvents = {}
  /\ entErr = "none"
  /\ alternativeMoves = 0
  /\ entUsed = 0
  /\ entTurn = 0

\* data.Object{} (ID 0), data.Position{}, and the position MoveToCoords is
\* asked to reach; the position of an object is written as its ID
NoObject == "none"
ZeroPosition == "zero"
ToPosition == "to"

\* the options of a call that was not made
NoCall ==
  [ignoreMonsters |-> FALSE, ignoreItems |-> FALSE, clearPathOverride |-> FALSE,
   ignoreShrines |-> FALSE, interactWithChests |-> FALSE, initialArea |-> NoArea,
   near |-> FALSE]

\* an iteration that met neither line 992 nor line 1046
NoChoice ==
  [elapsed |-> TRUE, enemy |-> FALSE, shrine |-> NoObject, chest |-> NoObject,
   target |-> ZeroPosition, pathLen |-> 0, pathStep |-> 0]

MoveIdle ==
  /\ mvPc = "idle"
  /\ mvCall = NoCall
  /\ shrine = NoObject
  /\ chest = NoObject
  /\ blacklistedInteractions = EmptyMap
  /\ stuck = FALSE
  /\ adjustMinDist = FALSE
  /\ pathFound = FALSE
  /\ previousTargetPosition = ZeroPosition
  /\ actionLastMonsterHandlingTime = "zero"
  /\ blacklistedPads = {}
  /\ tpPad = NoObject
  /\ mvDead = FALSE
  /\ mvRecomputed = FALSE
  /\ mvPad = NoObject
  /\ mvMoveErr = "none"
  /\ mvPath = 0
  /\ mvTicks = 0
  /\ mvEvents = {}
  /\ mvOffered = [shrine |-> NoObject, chest |-> NoObject]
  /\ mvChoice = NoChoice
  /\ mvNear = FALSE
  /\ mvMenusClosed = FALSE
  /\ mvErr = "none"

SelIdle ==
  /\ selPc = "idle"
  /\ selDest = NoArea
  /\ selTries = 0
  /\ selMenu = FALSE
  /\ selLog = <<>>
  /\ selErr = "none"

\* the zero values of what a grid builder call leaves behind
NoGrid == [OffsetX |-> 0, OffsetY |-> 0, Width |-> 0, Height |-> 0, CollisionGrid |-> <<>>]
NoGridArgs == [offsetX |-> 0, offsetY |-> 0, exits |-> <<>>, act1 |-> FALSE, objects |-> <<>>]

GridIdle ==
  /\ gridPass = "none"
  /\ builder = "part_001"
  /\ gridRaw = <<>>
  /\ gridCells = <<>>
  /\ gridPanic = FALSE
  /\ gridArgs = NoGridArgs
  /\ gridResult = NoGrid

\* no server, no window
NoServer == 0
NoWindow == 0

OverlayIdle ==
  /\ running = FALSE
  /\ poServer = NoServer
  /\ poWindow = NoWindow
  /\ serversMade = 0
  /\ serversAlive = {}
  /\ windowsMade = 0
  /\ windowsOpen = {}
  /\ ovPc = <<>>
  /\ ovLocal = <<>>
  /\ ovCalls = 0
  /\ winPc = <<>>
  /\ winLocal = <<>>

\* no DebugOverlay, no context
NoOverlay == 0
NoContext == "nil"

InstanceIdle ==
  /\ overlayInstances = <<>>
  /\ instPc = <<>>
  /\ instLocal = <<>>
  /\ instCalls = 0
  /\ instMade = 0
  /\ instReturned = {}

\* no payload, no snapshot
NoPayload == [Tiles |-> 0, Path |-> <<>>, Objects |-> <<>>, Monsters |-> <<>>, Meta |-> <<>>]
NilGrid ==
  [isNil |-> TRUE, OffsetX |-> 0, OffsetY |-> 0, Width |-> 0, Height |-> 0,
   evenRows |-> "none", oddRows |-> "none"]
NoGameData ==
  [isIngame |-> FALSE, player |-> <<0, 0>>, area |-> "none", objects |-> <<>>,
   enemies |-> <<>>, grid |-> NilGrid, lastPath |-> <<>>]

PayloadIdle ==
  /\ payPc = "idle"
  /\ dataSnapshot = NoGameData
  /\ payload = NoPayload



\* no call of ensureAreaSync
SyncIdle ==
  /\ syncPc = "idle"
  /\ syncExpected = NoArea
  /\ syncDead = FALSE
  /\ syncAttempts = 0
  /\ syncObserved = <<>>
  /\ syncErr = "nil"

\* no call of MoveToArea or moveToAreaSingle followed through its frames
NestIdle ==
  /\ nestPc = "idle"
  /\ nestEntry = "none"
  /\ nestDst = NoArea
  /\ nestFrames = 0
  /\ nestSeen = "none"
  /\ nestErr = "nil"

\* no call of staticAreaPath
PathIdle ==
  /\ pathStart = NoArea
  /\ pathGoal = NoArea
  /\ pathResult = [path |-> <<>>, ok |-> FALSE]

(***************************************************************************)
(* RouteSpec: buildAreaRoute applied to a snapshot.                        *)
(***************************************************************************)
RouteInit ==
  /\ SnapshotInit
  /\ playerArea \in RouteStarts
  /\ RouteIdle
  /\ SearchIdle
  /\ WayIdle
  /\ MtaIdle
  /\ EntIdle
  /\ MoveIdle
  /\ SelIdle
  /\ OverlayIdle
  /\ PayloadIdle
  /\ NestIdle
  /\ PathIdle
  /\ GridIdle
  /\ InstanceIdle
  /\ SyncIdle

\* route, routeErr := buildAreaRoute(ctx, dst)
BuildAreaRoute(dst) ==
  /\ routeDst = NoArea
  /\ LET r == buildAreaRoute(ctxData, dst) IN
       /\ route' = r.route
       /\ routeErr' = r.err
  /\ routeDst' = dst
  /\ UNCHANGED <<snapVars, otherThanRoute>>

RouteNext == \E dst \in RouteGoals : BuildAreaRoute(dst)

RouteSpec == RouteInit /\ [][RouteNext]_vars

\* a -> b is a physical adjacency edge: static table or snapshot
IsAdjacencyEdge(a, b) == b \in collectNeighbors(ctxData, a)

\* a -> b is a waypoint hop from a waypoint area to a discovered waypoint
IsWaypointHop(a, b) == a \in DOMAIN WPAddresses /\ b \in availableWaypoints

\* a -> b is the hop to the town of a's act ("portal to town")
IsTownHop(a, b) == b = actTownWaypoints[Act(a)]

RouteReturned == routeDst # NoArea /\ routeErr = "nil"

SearchStarts == {"BloodMoor", "LutGholein", "DuranceOfHateLevel3"}

\* the search reads the available waypoints and the avatar's area only
SearchInit ==
  /\ availableWaypoints \in SubsetsUpTo(WaypointPool, MaxWaypoints)
  /\ adjacentLevels = {}
  /\ canTeleport = FALSE
  /\ mapOrder = "asc"
  /\ playerArea \in SearchStarts
  /\ RouteIdle
  /\ SearchIdle
  /\ WayIdle
  /\ MtaIdle
  /\ EntIdle
  /\ MoveIdle
  /\ SelIdle
  /\ OverlayIdle
  /\ PayloadIdle
  /\ NestIdle
  /\ PathIdle
  /\ GridIdle
  /\ InstanceIdle
  /\ SyncIdle

\* wpArea, wpCoords, hasWP, err := nearestWaypointArea(ctx, dest)
NearestWaypointArea(dest) ==
  /\ searchDest = NoArea
  /\ searchResult' = nearestWaypointArea(playerArea, availableWaypointMap(ctxData), dest)
  /\ searchDest' = dest
  /\ UNCHANGED <<snapVars, otherThanSearch>>

SearchNext == \E dest \in Areas : NearestWaypointArea(dest)

SearchSpec == SearchInit /\ [][SearchNext]_vars

\* C9: when nearestWaypointArea returns hasWP = true, the returned area is in
\* the act of the destination, has a known waypoint address (the one returned)
\* and is one of the avatar's available waypoints.
C9_NearestWaypointSameActKnown ==
  (searchDest # NoArea /\ searchResult.hasWP) =>
    /\ Act(searchResult.area) = Act(searchDest)
    /\ searchResult.area \in DOMAIN WPAddresses
    /\ searchResult.wpCoords = WPAddresses[searchResult.area]
    /\ searchResult.area \in availableWaypoints
    /\ searchResult.err = "nil"

\* a search that left the destination and found a waypoint some hops away
C9_Witness ==
  /\ searchDest # NoArea
  /\ searchResult.hasWP
  /\ searchResult.area # searchDest
  /\ searchResult.area \notin Range(staticNeighbors(searchDest))

\* C38: whenever nearestWaypointArea returns hasWP = true with the area W, the
\* static table has a route from W to the destination: staticAreaPath(W, dest)
\* succeeds, for every destination and every set of available waypoints.
C38_ChosenWaypointHasStaticRoute ==
  (searchDest # NoArea /\ searchResult.hasWP) =>
    staticAreaPath(searchResult.area, searchDest).ok

\* the search follows the outgoing edges from the destination, line 230: what
\* the table has is a route from the destination to the area returned
C38_RouteFromDestinationToChosen ==
  (searchDest # NoArea /\ searchResult.hasWP) =>
    staticAreaPath(searchDest, searchResult.area).ok

\* the waypoint of the canyon chosen for the sanctuary, which the table
\* leaves for the canyon without an edge back
C38_CanyonChosenForSanctuary ==
  /\ searchDest = "ArcaneSanctuary"
  /\ searchResult.hasWP
  /\ searchResult.area = "CanyonOfTheMagi"
  /\ "ArcaneSanctuary" \in Range(staticNeighbors("PalaceCellarLevel3"))
  /\ "CanyonOfTheMagi" \in Range(staticNeighbors("ArcaneSanctuary"))
  /\ "ArcaneSanctuary" \notin Range(staticNeighbors("CanyonOfTheMagi"))

(***************************************************************************)
(* Procedures called by WayPoint and MoveToArea, each as the set of the    *)
(* results (err, area) it can return: err is "nil" or the error, area is   *)
(* PlayerUnit.Area when it returns.  What the game does in between (the    *)
(* avatar crosses into the next area or not, dies, an interaction fails)   *)
(* is the choice of the element.                                           *)
(***************************************************************************)
\* ensureAreaSync(ctx, expected): nil at once when the area is the expected
\* one; otherwise up to maxAreaSyncAttempts refreshes, ending with the area
\* seen, the death of the avatar outside town, or the timeout
ensureAreaSync(area, expected) ==
  IF area = expected
  THEN {[err |-> "nil", area |-> area]}
  ELSE {[err |-> "nil", area |-> expected], [err |-> "area sync timeout", area |-> area]}
         \cup (IF IsTown(area) THEN {} ELSE {[err |-> "ErrDied", area |-> area]})

\* DiscoverWaypoint: nil in town; elsewhere the interaction with a waypoint
\* of the area may fail
DiscoverWaypoint(area) ==
  IF IsTown(area) THEN {"nil"} ELSE {"nil", "waypoint interaction failed"}

\* ensureWaypointAccess: outside town the avatar returns to town unless it
\* can teleport and a waypoint is among the objects of the current area (one
\* of the areas of WPAddresses); then the area must hold a waypoint
ensureWaypointAccess(area, canTeleportNow) ==
  LET town == actTownWaypoints[Act(area)]
      atWaypoint(a) == {[err |-> "nil", area |-> a, returned |-> a # area],
                        [err |-> "no waypoint found", area |-> a, returned |-> a # area]}
  IN IF IsTown(area)
     THEN atWaypoint(area)
     ELSE (IF canTeleportNow /\ area \in DOMAIN WPAddresses
           THEN {[err |-> "nil", area |-> area, returned |-> FALSE]}
           ELSE {})
            \cup {[err |-> "ReturnTown failed", area |-> area, returned |-> TRUE]}
            \cup atWaypoint(town)

\* selectWaypoint(ctx, wpCoords, dest): nil only once the area is dest
selectWaypoint(area, dest) ==
  {[err |-> "nil", area |-> dest], [err |-> "failed to select waypoint", area |-> area]}

\* verifyArrival: the area sync to dest, then the test of PlayerUnit.Area
verifyArrival(area, dest) ==
  {IF r.err # "nil" THEN [err |-> "failed to reach destination area", area |-> r.area]
   ELSE IF r.area # dest
   THEN [err |-> "failed to reach destination area", area |-> r.area]
   ELSE r : r \in ensureAreaSync(area, dest)}


\* traverseRemainder(wpArea, dest) with the avatar in area: nil at once when
\* wpArea is dest; else the walk along the static path, which ends, with or
\* without error, in the area it started in or in one of the path
traverseRemainder(wpArea, area, dest) ==
  IF wpArea = dest
  THEN {[err |-> "nil", area |-> area]}
  ELSE LET r == staticAreaPath(wpArea, dest) IN
       IF ~r.ok
       THEN {[err |-> "no static route found", area |-> area]}
       ELSE {[err |-> e, area |-> a] : e \in {"nil", "moveToAreaSingle failed"},
                                       a \in {area} \cup Range(r.path)}

\* WayPoint(dest) called on the snapshot ctx
WayPoint(ctx, dest) ==
  LET area == ctx.Area
      search == nearestWaypointArea(area, availableWaypointMap(ctx), dest)
      \* the error of the walk, else what verifyArrival returns
      verified(walks) ==
        UNION {IF t.err # "nil" THEN {t} ELSE verifyArrival(t.area, dest) : t \in walks}
      \* lines 46-60
      select(at) ==
        UNION {IF sel.err = "nil"
               THEN verified(traverseRemainder(search.area, sel.area, dest))
               ELSE IF Act(sel.area) # Act(dest)
               THEN {sel}
               ELSE traverseRemainder(sel.area, sel.area, dest)
               : sel \in selectWaypoint(at, search.area)}
      \* lines 39-45
      access ==
        UNION {IF acc.err # "nil"
               THEN {[err |-> acc.err, area |-> acc.area]}
               ELSE IF search.area # acc.area
               THEN select(acc.area)
               ELSE verified(traverseRemainder(search.area, acc.area, dest))
               : acc \in ensureWaypointAccess(area, ctx.CanTeleport)}
  IN IF area = dest
     THEN {[err |-> "nil", area |-> area]}
     ELSE IF search.err # "nil"
     THEN {[err |-> search.err, area |-> area]}
     ELSE IF ~search.hasWP
     THEN verified(traverseRemainder(area, area, dest))
     ELSE access

\* the transitions moveToAreaSingle makes through a portal object
isPortalTransition(area, dst) ==
  \/ dst = "ArcaneSanctuary" /\ area = "PalaceCellarLevel3"
  \/ area = "ArcaneSanctuary" /\ dst = "PalaceCellarLevel3"
  \/ dst = "CanyonOfTheMagi" /\ area = "ArcaneSanctuary"
  \/ area = "NihlathaksTemple" /\ dst = "Harrogath"
  \/ dst = "NihlathaksTemple"

\* findProxyArea: the first static neighbour of dst, other than dst and the
\* current area, that is also a neighbour of the current area
findProxyArea(ctx, dst) ==
  LET currSet == collectNeighbors(ctx, ctx.Area)
      isCandidate(c) == c # dst /\ c # ctx.Area /\ c \in currSet
      candidates == SelectSeq(staticNeighbors(dst), isCandidate)
  IN IF candidates = <<>> THEN NoArea ELSE Head(candidates)

\* moveToAreaSingle(ctx, dst, allowWaypoints).  The area at return is the one
\* it was called in or dst, or where the WayPoint it calls leaves the avatar;
\* whether the level data of dst is in the refreshed game data, and whether
\* it is an entrance, is the game's.
moveToAreaSingle(ctx, dst, allowWaypoints) ==
  LET area == ctx.Area
      ends == {area, dst}
      \* checkPlayerDeath at the start
      died == IF IsTown(area) THEN {} ELSE {[err |-> "ErrDied", area |-> area]}
      \* the portal branches return what the object interaction returns, which
      \* is nil once the area is dst
      portal == {[err |-> "nil", area |-> dst],
                 [err |-> "portal interaction failed", area |-> area]}
      \* * -> Nihlathak's Temple: to Harrogath first, unless the area is one of
      \* CanReachNihlathakTempleFrom, where the call repeats itself
      toHarrogath == IF area = "Harrogath" THEN {}
                     ELSE {r \in WayPoint(ctx, "Harrogath") : r.err # "nil"}
      fromHarrogath == {[err |-> "nil", area |-> dst],
                        [err |-> "portal interaction failed", area |-> "Harrogath"]}
      temple == IF area \in Range(CanReachNihlathakTempleFrom)
                THEN {}
                ELSE toHarrogath \cup fromHarrogath
      tristram == IF dst = "Tristram" /\ area = "StonyField" THEN portal ELSE {}
      \* no level data for dst: MoveToArea(proxy), then a waypoint or an error
      viaProxy == IF findProxyArea(ctx, dst) # NoArea
                  THEN {[err |-> "MoveToArea(proxy) failed", area |-> area]}
                  ELSE {}
      missing == IF allowWaypoints THEN {}
                 ELSE {[err |-> "missing cached data", area |-> area]}
      viaWaypoint == IF allowWaypoints THEN WayPoint(ctx, dst) ELSE {}
      \* MoveTo towards the level failed
      moveFailed == {[err |-> "MoveTo failed", area |-> a] : a \in ends}
      \* an entrance still more than 7 away: return MoveToArea(dst), which found
      \* the level and so has a route
      tooFar == {[err |-> "nil", area |-> dst]}
                  \cup {[err |-> "MoveToArea failed", area |-> a] : a \in ends}
      \* an entrance: death check, three interactions, ensureAreaSync(dst)
      entrance == {[err |-> "ErrDied", area |-> area],
                   [err |-> "failed to interact", area |-> area],
                   [err |-> "area sync timeout", area |-> area],
                   [err |-> "nil", area |-> dst]}
      \* no entrance: nil as soon as MoveTo returned nil, wherever the avatar is
      walked == {[err |-> "nil", area |-> a] : a \in ends}
  IN IF isPortalTransition(area, dst)
     THEN died \cup (IF dst = "NihlathaksTemple" THEN temple ELSE portal)
     ELSE died \cup tristram \cup viaProxy \cup missing \cup viaWaypoint \cup moveFailed
            \cup tooFar \cup entrance \cup walked

(***************************************************************************)
(* WaySpec: WayPoint(dest).                                                *)
(***************************************************************************)
\* the areas WayPoint is called in, and the destinations asked for
WayStarts == {"RogueEncampment", "BloodMoor", "LutGholein"}
WayDests == {"BloodMoor", "ColdPlains", "StonyField", "DryHills"}

WayInit ==
  /\ availableWaypoints \in SubsetsUpTo(WaypointPool, MaxWaypoints)
  /\ adjacentLevels = {}
  /\ canTeleport \in BOOLEAN
  /\ mapOrder = "asc"
  /\ playerArea \in WayStarts
  /\ RouteIdle
  /\ SearchIdle
  /\ WayIdle
  /\ MtaIdle
  /\ EntIdle
  /\ MoveIdle
  /\ SelIdle
  /\ OverlayIdle
  /\ PayloadIdle
  /\ NestIdle
  /\ PathIdle
  /\ GridIdle
  /\ InstanceIdle
  /\ SyncIdle

\* WayPoint returns err
WayReturn(err) ==
  /\ wayPc' = "done"
  /\ wayErr' = err

\* traverseRemainder(from, dest), up to its loop: nothing to walk when from is
\* dest, an error when the static table has no path.  verify tells whether
\* the caller goes on to verifyArrival.
WayTraverseFrom(from, verify) ==
  LET r == staticAreaPath(from, wayDest) IN
  /\ wayVerify' = verify
  /\ wayIdx' = 2
  /\ IF from = wayDest
     THEN /\ wayPath' = <<from>>
          /\ IF verify
             THEN wayPc' = "verify" /\ wayErr' = wayErr
             ELSE WayReturn("nil")
     ELSE IF ~r.ok
     THEN /\ wayPath' = <<>>
          /\ WayReturn("no static route found")
     ELSE /\ wayPath' = r.path
          /\ wayPc' = "traverse"
          /\ wayErr' = wayErr

\* a call that searches for a waypoint even when already in dest
WayPointCallNoShortcut(dest) ==
  /\ wayPc = "idle"
  /\ wayDest' = dest
  /\ wayCalledIn' = playerArea
  /\ wayPc' = "search"
  /\ UNCHANGED <<waySearch, wayPath, wayIdx, wayVerify, wayErr, wayLog>>
  /\ UNCHANGED <<snapVars, otherThanWay>>

\* WayPoint, lines 17-24: return nil at once when already in dest
WayPointCall(dest) ==
  /\ wayPc = "idle"
  /\ wayDest' = dest
  /\ wayCalledIn' = playerArea
  /\ IF playerArea = dest
     THEN WayReturn("nil")
     ELSE wayPc' = "search" /\ wayErr' = wayErr
  /\ UNCHANGED <<waySearch, wayPath, wayIdx, wayVerify, wayLog>>
  /\ UNCHANGED <<snapVars, otherThanWay>>

\* WayPoint, lines 26-37: the nearest waypoint; with none, walk from here
WaySearchWaypoint ==
  /\ wayPc = "search"
  /\ LET r == nearestWaypointArea(playerArea, availableWaypointMap(ctxData), wayDest) IN
       /\ waySearch' = r
       /\ IF r.err # "nil"
          THEN /\ WayReturn(r.err)
               /\ wayLog' = wayLog \cup {"search"}
               /\ UNCHANGED <<wayPath, wayIdx, wayVerify>>
          ELSE IF ~r.hasWP
          THEN /\ WayTraverseFrom(playerArea, TRUE)
               /\ wayLog' = wayLog \cup {"search", "traverseRemainder"}
          ELSE /\ wayPc' = "access"
               /\ wayLog' = wayLog \cup {"search"}
               /\ UNCHANGED <<wayPath, wayIdx, wayVerify, wayErr>>
  /\ UNCHANGED <<wayDest, wayCalledIn>>
  /\ UNCHANGED <<snapVars, otherThanWay>>

\* WayPoint, lines 39-45: ensureWaypointAccess, the refresh, and the choice
\* between selecting the waypoint and walking on from here
WayAccess ==
  /\ wayPc = "access"
  /\ \E r \in ensureWaypointAccess(playerArea, canTeleport) :
       /\ playerArea' = r.area
       /\ IF r.err # "nil"
          THEN /\ WayReturn(r.err)
               /\ wayLog' = wayLog \cup (IF r.returned THEN {"ReturnTown"} ELSE {})
               /\ UNCHANGED <<wayPath, wayIdx, wayVerify>>
          ELSE IF waySearch.area # r.area
          THEN /\ wayPc' = "select"
               /\ wayLog' = wayLog \cup (IF r.returned THEN {"ReturnTown"} ELSE {})
               /\ UNCHANGED <<wayPath, wayIdx, wayVerify, wayErr>>
          ELSE /\ WayTraverseFrom(waySearch.area, TRUE)
               /\ wayLog' = wayLog \cup (IF r.returned THEN {"ReturnTown"} ELSE {})
                                   \cup {"traverseRemainder"}
  /\ UNCHANGED <<wayDest, wayCalledIn, waySearch>>
  /\ UNCHANGED <<availableWaypoints, adjacentLevels, canTeleport, mapOrder, otherThanWay>>

\* WayPoint, lines 46-60: selectWaypoint; when it fails in the act of dest,
\* close the menus and return what walking the remainder returns
WaySelect ==
  /\ wayPc = "select"
  /\ \E r \in selectWaypoint(playerArea, waySearch.area) :
       /\ playerArea' = r.area
       /\ IF r.err = "nil"
          THEN /\ WayTraverseFrom(waySearch.area, TRUE)
               /\ wayLog' = wayLog \cup {"selectWaypoint", "traverseRemainder"}
          ELSE IF Act(r.area) # Act(wayDest)
          THEN /\ WayReturn("failed to select waypoint")
               /\ wayLog' = wayLog \cup {"selectWaypoint"}
               /\ UNCHANGED <<wayPath, wayIdx, wayVerify>>
          ELSE /\ WayTraverseFrom(r.area, FALSE)
               /\ wayLog' = wayLog \cup {"selectWaypoint", "CloseAllMenus",
                                         "traverseRemainder"}
  /\ UNCHANGED <<wayDest, wayCalledIn, waySearch>>
  /\ UNCHANGED <<availableWaypoints, adjacentLevels, canTeleport, mapOrder, otherThanWay>>

\* traverseRemainder, lines 94-103: one hop of the loop, then DiscoverWaypoint
WayTraverseHop ==
  /\ wayPc = "traverse"
  /\ wayIdx <= Len(wayPath)
  /\ \E r \in moveToAreaSingle(ctxData, wayPath[wayIdx], FALSE) :
       /\ playerArea' = r.area
       /\ \E d \in DiscoverWaypoint(r.area) :
            IF r.err # "nil"
            THEN WayReturn(r.err) /\ wayIdx' = wayIdx
            ELSE IF d # "nil"
            THEN WayReturn(d) /\ wayIdx' = wayIdx
            ELSE /\ wayIdx' = wayIdx + 1
                 /\ IF wayIdx + 1 <= Len(wayPath)
                    THEN wayPc' = "traverse" /\ wayErr' = wayErr
                    ELSE IF wayVerify
                    THEN wayPc' = "verify" /\ wayErr' = wayErr
                    ELSE WayReturn("nil")
  /\ wayLog' = wayLog \cup {"moveToAreaSingle"}
  /\ UNCHANGED <<wayDest, wayCalledIn, waySearch, wayPath, wayVerify>>
  /\ UNCHANGED <<availableWaypoints, adjacentLevels, canTeleport, mapOrder, otherThanWay>>

\* WayPoint, lines 36 and 62-71: verifyArrival, then nil
WayVerifyArrival ==
  /\ wayPc = "verify"
  /\ \E r \in verifyArrival(playerArea, wayDest) :
       /\ playerArea' = r.area
       /\ WayReturn(r.err)
  /\ wayLog' = wayLog \cup {"verifyArrival"}
  /\ UNCHANGED <<wayDest, wayCalledIn, waySearch, wayPath, wayIdx, wayVerify>>
  /\ UNCHANGED <<availableWaypoints, adjacentLevels, canTeleport, mapOrder, otherThanWay>>

WayNext ==
  \/ \E dest \in WayDests : WayPointCall(dest)
  \/ WaySearchWaypoint
  \/ WayAccess
  \/ WaySelect
  \/ WayTraverseHop
  \/ WayVerifyArrival

WaySpec == WayInit /\ [][WayNext]_vars

\* WayPoint has returned
WayReturned == wayPc = "done"

\* C3: whenever WayPoint(dest) returns nil after leaving its first test, on
\* every path through it, verifyArrival has run and PlayerUnit.Area is dest.
C3_SuccessImpliesArrivalVerified ==
  (WayReturned /\ wayErr = "nil" /\ wayCalledIn # wayDest) =>
    /\ "verifyArrival" \in wayLog
    /\ playerArea = wayDest

\* C8: WayPoint(dst) called in dst has returned nil as soon as it was called:
\* no waypoint search, no return to town, no menu, no traversal, and the
\* avatar is where it was.
C8_AlreadyThereReturnsAtOnce ==
  (wayPc # "idle" /\ wayCalledIn = wayDest) =>
    /\ WayReturned
    /\ wayErr = "nil"
    /\ wayLog = {}
    /\ waySearch = NoSearch
    /\ playerArea = wayCalledIn

\* a call made in the destination
C8_Witness ==
  /\ WayReturned
  /\ wayDest # NoArea
  /\ wayCalledIn = wayDest

\* the search of WayPoint found no usable waypoint
WaySearchFoundNone == "search" \in wayLog /\ ~waySearch.hasWP

\* C10: when the search finds no usable waypoint, in the act of the avatar it
\* returns (0, empty address, false) with no error and WayPoint walks; in
\* another act it returns an error, WayPoint returns it and walks nowhere.
C10_NoWaypointWalkOnlyInAct ==
  WaySearchFoundNone =>
    IF Act(wayDest) = Act(wayCalledIn)
    THEN /\ waySearch = [area |-> NoArea, wpCoords |-> NoWPAddress, hasWP |-> FALSE,
                         err |-> "nil"]
         /\ "traverseRemainder" \in wayLog
    ELSE /\ waySearch.err # "nil"
         /\ waySearch.area = NoArea
         /\ waySearch.wpCoords = NoWPAddress
         /\ WayReturned
         /\ wayErr = waySearch.err
         /\ wayLog = {"search"}
         /\ playerArea = wayCalledIn

\* a search for a destination of another act that found no waypoint
C10_Witness ==
  /\ WaySearchFoundNone
  /\ Act(wayDest) # Act(wayCalledIn)
  /\ WayReturned

\* a search in the act of the avatar that found no waypoint, after which the
\* walk reached the destination
C10_WitnessWalk ==
  /\ WaySearchFoundNone
  /\ Act(wayDest) = Act(wayCalledIn)
  /\ WayReturned
  /\ wayErr = "nil"
  /\ playerArea = wayDest

\* what WayPoint returns, step by step, is among the results of the WayPoint
\* the other procedures call
WayStepsWithinResults ==
  WayReturned =>
    \E r \in WayPoint([ctxData EXCEPT !.Area = wayCalledIn], wayDest) :
      /\ r.area = playerArea
      /\ (r.err = "nil") <=> (wayErr = "nil")

(***************************************************************************)
(* MtaSpec: MoveToArea(dst).                                               *)
(***************************************************************************)
\* the hops after which MoveToArea gives up (line 267)
maxAreaHops == 50

\* the waypoints of the snapshots, the areas MoveToArea is called in and the
\* destinations asked for
MtaWaypointPool == {"RogueEncampment", "ColdPlains"}
MtaStarts == {"BloodMoor", "ThroneOfDestruction"}
MtaGoals == {"StonyField", "TheWorldstoneChamber", "DurielsLair"}

MtaInit ==
  /\ availableWaypoints \in SubsetsUpTo(MtaWaypointPool, MaxWaypoints)
  /\ adjacentLevels = {}
  /\ canTeleport = FALSE
  /\ mapOrder = "asc"
  /\ playerArea \in MtaStarts
  /\ RouteIdle
  /\ SearchIdle
  /\ WayIdle
  /\ MtaIdle
  /\ EntIdle
  /\ MoveIdle
  /\ SelIdle
  /\ OverlayIdle
  /\ PayloadIdle
  /\ NestIdle
  /\ PathIdle
  /\ GridIdle
  /\ InstanceIdle
  /\ SyncIdle

\* moveToDurielsLair: nil only once the portal interaction saw the avatar in
\* Duriel's Lair
moveToDurielsLair(ctx) ==
  {[err |-> "nil", area |-> "DurielsLair"],
   [err |-> "failed to move to Duriel's Lair", area |-> ctx.Area]}

\* MoveToArea returns err
MtaReturn(err) ==
  /\ mtaPc' = "done"
  /\ mtaErr' = err

\* MoveToArea, lines 221-229
MoveToAreaCall(dst) ==
  /\ mtaPc = "idle"
  /\ mtaDst' = dst
  /\ IF dst = "DurielsLair"
     THEN \E r \in moveToDurielsLair(ctxData) :
            /\ playerArea' = r.area
            /\ MtaReturn(r.err)
     ELSE /\ mtaPc' = "loop"
          /\ UNCHANGED <<playerArea, mtaErr>>
  /\ UNCHANGED <<hops, mtaSingles, route, routeErr, routeDst>>
  /\ UNCHANGED <<availableWaypoints, adjacentLevels, canTeleport, mapOrder, otherThanMta>>

\* lines 242-249: no route; moveToAreaSingle(dst), WayPoint(dst) when that
\* fails, and then line 252 with the empty route
MtaWithoutRoute ==
  \E single \in moveToAreaSingle(ctxData, mtaDst, TRUE) :
    IF single.err = "nil"
    THEN /\ playerArea' = single.area
         /\ MtaReturn("nil")
    ELSE \E wp \in WayPoint([ctxData EXCEPT !.Area = single.area], mtaDst) :
           /\ playerArea' = wp.area
           /\ IF wp.err # "nil"
              THEN MtaReturn("waypoint failed")
              ELSE MtaReturn("nil")

\* lines 258-269: the hop to route[1]
MtaHop(next) ==
  \E single \in moveToAreaSingle(ctxData, next, TRUE) :
    /\ playerArea' = single.area
    /\ mtaSingles' = mtaSingles + 1
    /\ IF single.err # "nil"
       THEN /\ MtaReturn(single.err)
            /\ hops' = hops
       ELSE /\ hops' = hops + 1
            /\ IF hops + 1 > maxAreaHops
               THEN MtaReturn("failed to reach after hops")
               ELSE UNCHANGED <<mtaPc, mtaErr>>

\* MoveToArea, lines 231-270: one iteration of the loop
MoveToAreaLoop ==
  /\ mtaPc = "loop"
  /\ IF playerArea = mtaDst
     THEN /\ MtaReturn("nil")
          /\ UNCHANGED <<playerArea, hops, mtaSingles, route, routeErr>>
     ELSE \E r \in {buildAreaRoute(ctxData, mtaDst)} :
          /\ route' = r.route
          /\ routeErr' = r.err
          /\ IF r.err # "nil"
             THEN /\ MtaWithoutRoute
                  /\ UNCHANGED <<hops, mtaSingles>>
             ELSE IF Len(r.route) <= 1
             THEN /\ MtaReturn("nil")
                  /\ UNCHANGED <<playerArea, hops, mtaSingles>>
             ELSE MtaHop(r.route[2])
  /\ UNCHANGED <<mtaDst, routeDst>>
  /\ UNCHANGED <<availableWaypoints, adjacentLevels, canTeleport, mapOrder, otherThanMta>>

MtaNext ==
  \/ \E dst \in MtaGoals : MoveToAreaCall(dst)
  \/ MoveToAreaLoop

MtaSpec == MtaInit /\ [][MtaNext]_vars

\* MoveToArea has returned
MtaReturned == mtaPc = "done"

\* C4: MoveToArea(dst) returns nil only with the avatar in dst, also when no
\* route was found and the fallback returned without error.
C4_SuccessOnlyInDestination ==
  (MtaReturned /\ mtaErr = "nil") => playerArea = mtaDst

\* C5: a MoveToArea call makes at most 50 single-hop moves in its loop: a
\* move starts with a hop counter of at most 50, and the 'failed to reach'
\* error is returned with the counter at 50.
C5_AtMostFiftySingleHops ==
  /\ mtaSingles <= maxAreaHops
  /\ mtaPc = "loop" => hops <= maxAreaHops
  /\ mtaErr = "failed to reach after hops" => hops = maxAreaHops

(***************************************************************************)
(* EntSpec: step.InteractEntranceMouse(targetArea).  Positions are points  *)
(* of a line, so that the distance of two of them is the difference.  The  *)
(* snapshot, the clock and what MoveTo achieves are the game's, chosen     *)
(* anew in every iteration.                                                *)
(***************************************************************************)
maxInteractionAttempts == 21          \* line 62
mousePositionMatchThreshold == 10     \* line 19
alternativeMovesLen == 4              \* lines 190-195
repositionEvery == 5                  \* line 199

\* the area the entrance leads to
EntTarget == "SewersLevel3Act2"

\* the entries AdjacentLevels can hold: two entrances to the target close to
\* each other, one far from them, one entry that is no entrance, and an
\* entrance to another area
EntLevelA == [pos |-> 100, isEntrance |-> TRUE, area |-> EntTarget]
EntLevelB == [pos |-> 105, isEntrance |-> TRUE, area |-> EntTarget]
EntLevelFar == [pos |-> 130, isEntrance |-> TRUE, area |-> EntTarget]
EntLevelPlain == [pos |-> 100, isEntrance |-> FALSE, area |-> EntTarget]
EntLevelOther == [pos |-> 102, isEntrance |-> TRUE, area |-> "SewersLevel1Act2"]

\* the values of ctx.Data.AdjacentLevels
EntAdjacentLevels ==
  {<<>>, <<EntLevelOther>>, <<EntLevelA>>, <<EntLevelOther, EntLevelB, EntLevelA>>,
   <<EntLevelA, EntLevelB>>, <<EntLevelFar, EntLevelA>>, <<EntLevelPlain>>}

\* pather.DistanceFromPoint
DistanceFromPoint(p, q) == IF p >= q THEN p - q ELSE q - p

\* the test of line 83, for attempts as well in line 123
attemptsExhaustedLate(n) == n > maxInteractionAttempts + 1
attemptsExhausted(n) == n > maxInteractionAttempts

\* lines 114-120: the first entry for the target area
RECURSIVE findTargetLevel(_, _)
findTargetLevel(levels, targetArea) ==
  IF levels = <<>> THEN NoLevel
  ELSE IF Head(levels).area = targetArea THEN Head(levels)
  ELSE findTargetLevel(Tail(levels), targetArea)

\* lines 141-155 without the test of lastEntranceLevel
RECURSIVE nearestEntranceAnyInstanceFrom(_, _, _, _, _, _)
nearestEntranceAnyInstanceFrom(levels, targetArea, targetLevel, last, nearest, minDistance) ==
  IF levels = <<>> THEN nearest
  ELSE LET l == Head(levels)
           distance == DistanceFromPoint(targetLevel.pos, l.pos)
           take == /\ l.area = targetArea
                   /\ distance <= mousePositionMatchThreshold
                   /\ (nearest = NoLevel \/ distance < minDistance)
       IN nearestEntranceAnyInstanceFrom(Tail(levels), targetArea, targetLevel, last,
                                         IF take THEN l ELSE nearest,
                                         IF take THEN distance ELSE minDistance)

\* lines 141-155: the entry for the target area nearest to targetLevel within
\* the threshold, the first of them in the list; once an entrance was chosen,
\* only entries at its position
RECURSIVE nearestEntranceFrom(_, _, _, _, _, _)
nearestEntranceFrom(levels, targetArea, targetLevel, last, nearest, minDistance) ==
  IF levels = <<>> THEN nearest
  ELSE LET l == Head(levels)
           distance == DistanceFromPoint(targetLevel.pos, l.pos)
           take == /\ l.area = targetArea
                   /\ (last = NoLevel \/ last.pos = l.pos)
                   /\ distance <= mousePositionMatchThreshold
                   /\ (nearest = NoLevel \/ distance < minDistance)
       IN nearestEntranceFrom(Tail(levels), targetArea, targetLevel, last,
                              IF take THEN l ELSE nearest,
                              IF take THEN distance ELSE minDistance)

nearestEntrance(levels, targetArea, targetLevel, last) ==
  nearestEntranceFrom(levels, targetArea, targetLevel, last, NoLevel,
                      mousePositionMatchThreshold + 1)

EntInit ==
  /\ availableWaypoints = {}
  /\ adjacentLevels = {}
  /\ canTeleport = FALSE
  /\ mapOrder = "asc"
  /\ playerArea = "SewersLevel2Act2"
  /\ RouteIdle
  /\ SearchIdle
  /\ WayIdle
  /\ MtaIdle
  /\ EntIdle
  /\ MoveIdle
  /\ SelIdle
  /\ OverlayIdle
  /\ PayloadIdle
  /\ NestIdle
  /\ PathIdle
  /\ GridIdle
  /\ InstanceIdle
  /\ SyncIdle

\* InteractEntranceMouse returns err
EntReturn(err) ==
  /\ entPc' = "done"
  /\ entErr' = err

\* the loop goes on
EntContinue == UNCHANGED <<entPc, entErr>>

\* lines 61-74
InteractEntranceMouseCall ==
  /\ entPc = "idle"
  /\ entPc' = "loop"
  /\ UNCHANGED <<interactionAttempts, attempts, waitingForInteraction, lastRun,
                 lastEntranceLevel, alternativeIndex, entEvents, entErr,
                 alternativeMoves, entUsed, entTurn>>
  /\ UNCHANGED <<snapVars, otherThanEnt>>

\* lines 241-264, for the entrance l: the click when the pointer hovers it,
\* then the move of the pointer to the next offset of the spiral
EntHoverAndMove(l, hovered, seen) ==
  IF l.isEntrance
  THEN /\ entEvents' = (IF hovered THEN {"click"} ELSE {}) \cup {"movePointer"}
                         \cup seen
       /\ waitingForInteraction' = (waitingForInteraction \/ hovered)
       /\ interactionAttempts' = interactionAttempts + 1
       /\ lastEntranceLevel' = l
       /\ EntContinue
  ELSE /\ entEvents' = seen
       /\ EntReturn("is not an entrance")
       /\ UNCHANGED <<waitingForInteraction, interactionAttempts, lastEntranceLevel>>

\* the entries of levels for targetArea
RECURSIVE entrancesTo(_, _)
entrancesTo(levels, targetArea) ==
  IF levels = <<>> THEN 0
  ELSE (IF Head(levels).area = targetArea THEN 1 ELSE 0) + entrancesTo(Tail(levels), targetArea)

\* lines 76-265: one iteration of the loop.  arrived: the area data is the
\* target's and holds the avatar; elapsed: time.Since(lastRun) against 500 ms;
\* levels: AdjacentLevels; near: the avatar is, or gets, within
\* maxEntranceDistance; hovered: the hover data shows the entrance
InteractEntranceMouseLoop(arrived, elapsed, levels, near, hovered) ==
  /\ entPc = "loop"
  /\ entTurn' = 1 - entTurn
  /\ IF arrived /\ (lastRun = "zero" \/ elapsed = "more")
     THEN /\ EntReturn("nil")
          /\ entEvents' = {}
          /\ entUsed' = 0
          /\ UNCHANGED <<interactionAttempts, attempts, waitingForInteraction, lastRun,
                         lastEntranceLevel, alternativeIndex, alternativeMoves>>
     ELSE IF attemptsExhausted(interactionAttempts)
     THEN /\ EntReturn("could not be interacted")
          /\ entEvents' = {}
          /\ entUsed' = 0
          /\ UNCHANGED <<interactionAttempts, attempts, waitingForInteraction, lastRun,
                         lastEntranceLevel, alternativeIndex, alternativeMoves>>
     ELSE IF waitingForInteraction /\ lastRun = "set" /\ elapsed = "less"
     THEN /\ EntContinue
          /\ entEvents' = {"wait"}
          /\ entUsed' = 0
          /\ UNCHANGED <<interactionAttempts, attempts, waitingForInteraction, lastRun,
                         lastEntranceLevel, alternativeIndex, alternativeMoves>>
     ELSE /\ lastRun' = "set"
          /\ LET targetLevel == findTargetLevel(levels, EntTarget)
                 l == nearestEntrance(levels, EntTarget, targetLevel, lastEntranceLevel)
                 moves == IF alternativeMoves = 0 THEN l.pos ELSE alternativeMoves
                 reposition == /\ alternativeIndex < alternativeMovesLen
                               /\ interactionAttempts % repositionEvery = 0
                 seen == (IF reposition THEN {"reposition"} ELSE {})
                           \cup (IF entrancesTo(levels, EntTarget) > 1
                                 THEN {"severalEntrances"} ELSE {})
             IN IF targetLevel = NoLevel
                THEN /\ attempts' = attempts + 1
                     /\ IF attemptsExhausted(attempts + 1)
                        THEN EntReturn("not found in adjacent levels")
                        ELSE EntContinue
                     /\ entEvents' = {}
                     /\ entUsed' = 0
                     /\ UNCHANGED <<interactionAttempts, waitingForInteraction,
                                    lastEntranceLevel, alternativeIndex, alternativeMoves>>
                ELSE IF l = NoLevel
                THEN /\ EntContinue
                     /\ entEvents' = {"noMatch"}
                     /\ entUsed' = 0
                     /\ UNCHANGED <<interactionAttempts, attempts, waitingForInteraction,
                                    lastEntranceLevel, alternativeIndex, alternativeMoves>>
                ELSE /\ alternativeMoves' = moves
                     /\ alternativeIndex' =
                          IF reposition THEN alternativeIndex + 1 ELSE alternativeIndex
                     /\ entUsed' = l.pos
                     /\ UNCHANGED attempts
                     /\ IF ~near
                        THEN /\ EntReturn("entrance too far away")
                             /\ entEvents' = seen
                             /\ UNCHANGED <<interactionAttempts, waitingForInteraction,
                                            lastEntranceLevel>>
                        ELSE EntHoverAndMove(l, hovered, seen)
  /\ UNCHANGED <<snapVars, otherThanEnt>>

EntNext ==
  \/ InteractEntranceMouseCall
  \/ \E arrived \in BOOLEAN, elapsed \in {"less", "equal", "more"},
        levels \in EntAdjacentLevels, near \in BOOLEAN, hovered \in BOOLEAN :
       InteractEntranceMouseLoop(arrived, elapsed, levels, near, hovered)

EntSpec == EntInit /\ [][EntNext]_vars

\* InteractEntranceMouse has returned
EntReturned == entPc = "done"

\* the errors of InteractEntranceMouse other than the one of the cap
EntOtherErrors ==
  {"not found in adjacent levels", "entrance too far away", "is not an entrance"}

\* C1 as stated: the interaction attempt counter never takes a value greater
\* than 21, and the 'could not be interacted' error is returned with the
\* counter at the cap.
C1_AttemptCounterAtMostCap ==
  /\ interactionAttempts <= maxInteractionAttempts
  /\ entErr = "could not be interacted" => interactionAttempts = maxInteractionAttempts

\* C1: the interaction attempt counter starts at 1 and never takes a value
\* greater than 22, so that at most 21 pointer moves are made; the call that
\* returns with the counter at 22 returns nil or the 'could not be interacted'
\* error, and that error is returned with the counter at 22 only.
C1_AttemptCounterAtMostCapPlusOne ==
  /\ interactionAttempts \in 1..(maxInteractionAttempts + 1)
  /\ entErr = "could not be interacted" => interactionAttempts = maxInteractionAttempts + 1
  /\ (EntReturned /\ interactionAttempts = maxInteractionAttempts + 1) =>
       entErr \in {"nil", "could not be interacted"}
  /\ entErr \in EntOtherErrors => interactionAttempts <= maxInteractionAttempts

\* the call gave up after the pointer was moved 21 times
C1_Witness ==
  /\ EntReturned
  /\ entErr = "could not be interacted"
  /\ interactionAttempts = maxInteractionAttempts + 1

\* the iteration reached the hover check of line 243
ReachedHoverCheck == entEvents \cap {"click", "movePointer"} # {}

\* C30 as stated: an iteration that reaches the hover check either clicks,
\* without moving the pointer and without counting an attempt, or moves the
\* pointer to the next offset of the spiral and counts one attempt.
C30_ClickOrMove ==
  [][ReachedHoverCheck' =>
       IF "click" \in entEvents'
       THEN /\ "movePointer" \notin entEvents'
            /\ interactionAttempts' = interactionAttempts
       ELSE /\ "movePointer" \in entEvents'
            /\ interactionAttempts' = interactionAttempts + 1]_vars

\* what the iteration does: it moves the pointer and counts the attempt
\* whether it clicked or not, and a click leaves it waiting
C30_MoveAfterEveryCheck ==
  [][ReachedHoverCheck' =>
       /\ "movePointer" \in entEvents'
       /\ interactionAttempts' = interactionAttempts + 1
       /\ "click" \in entEvents' => waitingForInteraction']_vars

\* an iteration clicked and moved the pointer
C30_ClickedAndMoved ==
  /\ "click" \in entEvents
  /\ "movePointer" \in entEvents
  /\ interactionAttempts > 0

\* the loop keeps iterating, whatever the snapshots show
EntLiveSpec == EntInit /\ [][EntNext]_vars /\ WF_vars(EntNext)

\* the last iteration ended at the wait of line 87
EntWaited == "wait" \in entEvents

\* C31 as stated: every InteractEntranceMouse call eventually returns for
\* every evolution of the snapshot, provided that time advances, that is,
\* provided that the iterations do not end at the 500 ms wait for ever.
C31_EveryCallReturns == ([]<>(~EntWaited)) => <>EntReturned

\* an iteration that passes the wait returns or counts an attempt in one of
\* the two counters, except when no entry matches the locked entrance
C31_OnlyNoMatchSpins ==
  [][(entTurn' # entTurn /\ entEvents' \cap {"wait", "noMatch"} = {}) =>
       \/ entPc' = "done"
       \/ interactionAttempts' = interactionAttempts + 1
       \/ attempts' = attempts + 1]_vars

\* an iteration found no entry for the locked entrance and went on with both
\* counters as they were
C31_LockedEntranceGone ==
  /\ "noMatch" \in entEvents
  /\ lastEntranceLevel # NoLevel
  /\ entPc = "loop"

\* C32: once the pointer was moved toward an entrance at position P, every
\* later iteration that chooses an entrance chooses one at P, for the check
\* of the distance and the move of the pointer, and the positions of
\* alternativeMoves surround P, whatever entrances to the target area the
\* snapshots list.
C32_SameInstanceOnceLocked ==
  [][(lastEntranceLevel # NoLevel /\ entUsed' # 0) =>
       /\ entUsed' = lastEntranceLevel.pos
       /\ alternativeMoves' = lastEntranceLevel.pos
       /\ lastEntranceLevel'.pos = lastEntranceLevel.pos]_vars

\* the pointer was moved toward the second entrance of the list and again in
\* a later iteration, whose snapshot listed several entrances
C32_Witness ==
  /\ lastEntranceLevel = EntLevelB
  /\ entUsed = EntLevelB.pos
  /\ interactionAttempts >= 3
  /\ {"severalEntrances", "movePointer"} \subseteq entEvents

(***************************************************************************)
(* MoveSpec: MoveToCoords, and MoveTo one iteration of its loop at a time. *)
(* The snapshot each iteration refreshes (the area, the death of the       *)
(* avatar, the monsters, shrines and chests around it, the path and the    *)
(* distance to the target, the outcome of the step) is the input of the    *)
(* iteration.  The options of the call leave DistanceToFinish unset.       *)
(***************************************************************************)
MaxTicks == 2            \* iterations of the loop explored in one call
MaxNearTicks == 1        \* iterations explored in a call made at the target

ShrineIDs == {"shrine1", "shrine2"}
ChestIDs == {"chest1"}

\* the areas MoveToCoords is called in
MoveStarts == {"LutGholein", "RockyWaste", "ArcaneSanctuary"}

\* the options and the configuration of the calls explored: ignoreMonsters,
\* ignoreItems, clearPathOverride, ignoreShrines, interactWithChests
MoveOptions ==
  {<<FALSE, FALSE, FALSE, FALSE, TRUE>>,
   <<FALSE, FALSE, FALSE, TRUE, FALSE>>,
   <<TRUE, TRUE, FALSE, TRUE, FALSE>>,
   <<FALSE, TRUE, TRUE, TRUE, TRUE>>}

\* the errors of step.MoveTo
MoveErrors ==
  {"ErrMonstersInPath", "ErrPlayerStuck", "ErrPlayerRoundTrip", "ErrNoPath", "step failed"}

\* the teleportation pads among ctx.Data.AreaData.Objects, in their order
AreaPads == <<"pad1", "pad2">>
PadIDs == {AreaPads[i] : i \in DOMAIN AreaPads}

\* the path distances to the pads a snapshot may show
PadDistances == [PadIDs -> 1..2]

\* the distance to the target against finishMoveDist: at most it, at most
\* twice it, or more
Distances == {"within", "double", "beyond"}

MoveInit ==
  /\ availableWaypoints = {}
  /\ adjacentLevels = {}
  /\ mapOrder = "asc"
  /\ canTeleport \in BOOLEAN
  /\ playerArea \in MoveStarts
  /\ RouteIdle
  /\ SearchIdle
  /\ WayIdle
  /\ MtaIdle
  /\ EntIdle
  /\ MoveIdle
  /\ SelIdle
  /\ OverlayIdle
  /\ PayloadIdle
  /\ NestIdle
  /\ PathIdle
  /\ GridIdle
  /\ InstanceIdle
  /\ SyncIdle

\* no death check
checkPlayerDeathNever(area, dead) == "nil"

\* a death check that does not look at the area
checkPlayerDeathAnywhere(area, dead) == IF dead THEN "ErrDied" ELSE "nil"

\* checkPlayerDeath
checkPlayerDeath(area, dead) ==
  IF IsTown(area) THEN "nil" ELSE IF dead THEN "ErrDied" ELSE "nil"

\* the test of lines 1016-1017 and 1030-1031: no entry, or an entry that is
\* false
notBlacklistedAnyway(blacklisted, id) == TRUE

notBlacklisted(blacklisted, id) == id \notin DOMAIN blacklisted \/ ~blacklisted[id]

\* line 992 without the cooldown: the monsters around the avatar are handled
combatEnabled ==
  ~mvCall.ignoreMonsters /\ (~canTeleport \/ mvCall.clearPathOverride)

\* line 992 without the cooldown
handleMonstersAtOnce(lastHandling, elapsed) == combatEnabled

\* line 992: the monsters are handled now; elapsed: time.Since of the last
\* handling is more than monsterHandleCooldown
handleMonsters(lastHandling, elapsed) ==
  combatEnabled /\ (lastHandling = "zero" \/ elapsed)

\* line 1024 left out: the chest stays when a shrine is taken
chestKeptWithShrine(takeShrine, chestNow) == chestNow

\* lines 1019-1024: taking a shrine resets the chest
chestAfterShrine(takeShrine, chestNow) == IF takeShrine THEN NoObject ELSE chestNow

\* the test of line 1092 with the doubled distance never honoured
reachedUnadjustedOnly(distance, adjust) == adjust /\ distance = "within"

\* line 1092: the target is reached
reached(distance, adjust) == distance = "within" \/ (adjust /\ distance = "double")

\* the locals of MoveTo and what the iteration has done
MoveLocals ==
  [pc |-> mvPc, err |-> mvErr, shrine |-> shrine, chest |-> chest,
   blacklistedInteractions |-> blacklistedInteractions, stuck |-> stuck,
   adjustMinDist |-> adjustMinDist, pathFound |-> pathFound,
   previousTargetPosition |-> previousTargetPosition,
   actionLastMonsterHandlingTime |-> actionLastMonsterHandlingTime,
   blacklistedPads |-> blacklistedPads, tpPad |-> tpPad, dead |-> mvDead,
   recomputed |-> mvRecomputed, pad |-> mvPad, moveErr |-> mvMoveErr,
   path |-> mvPath, events |-> mvEvents, offered |-> mvOffered,
   choice |-> mvChoice,
   near |-> mvNear]

\* the iteration ends with the locals t
MoveApply(t) ==
  /\ mvPc' = t.pc
  /\ mvErr' = t.err
  /\ shrine' = t.shrine
  /\ chest' = t.chest
  /\ blacklistedInteractions' = t.blacklistedInteractions
  /\ stuck' = t.stuck
  /\ adjustMinDist' = t.adjustMinDist
  /\ pathFound' = t.pathFound
  /\ previousTargetPosition' = t.previousTargetPosition
  /\ actionLastMonsterHandlingTime' = t.actionLastMonsterHandlingTime
  /\ blacklistedPads' = t.blacklistedPads
  /\ tpPad' = t.tpPad
  /\ mvDead' = t.dead
  /\ mvRecomputed' = t.recomputed
  /\ mvPad' = t.pad
  /\ mvMoveErr' = t.moveErr
  /\ mvPath' = t.path
  /\ mvEvents' = t.events
  /\ mvOffered' = t.offered
  /\ mvChoice' = t.choice
  /\ mvNear' = t.near

\* MoveTo returns err
MoveReturn(t, err) == MoveApply([t EXCEPT !.pc = "done", !.err = err])

\* lines 851-866 and 907-965: the death check and the area sync of
\* MoveToCoords, then the death check of MoveTo, the closing of the open
\* menus, the locals and the initial sync; the calls with a menu open are
\* the ones made at the target
MoveToCoordsCall(options, near, dead, menuOpen, closeErr) ==
  /\ mvPc = "idle"
  /\ menuOpen => near
  /\ mvCall' = [ignoreMonsters |-> options[1], ignoreItems |-> options[2],
                clearPathOverride |-> options[3], ignoreShrines |-> options[4],
                interactWithChests |-> options[5], initialArea |-> playerArea,
                near |-> near]
  /\ mvTicks' = 0
  /\ IF checkPlayerDeath(playerArea, dead) # "nil"
     THEN /\ ~menuOpen /\ ~closeErr
          /\ mvMenusClosed' = FALSE
          /\ MoveReturn(MoveLocals, "ErrDied")
     ELSE /\ IsTown(playerArea) => ~dead
          /\ closeErr => menuOpen
          /\ \E sync \in ensureAreaSync(playerArea, playerArea) : sync.err = "nil"
          /\ mvMenusClosed' = menuOpen
          /\ LET t == [MoveLocals EXCEPT
                         !.events = IF menuOpen THEN {"CloseAllMenus"} ELSE {},
                         !.near = near]
             IN IF closeErr
                THEN MoveReturn(t, "menus could not be closed")
                ELSE MoveApply([t EXCEPT !.pc = "loop"])
  /\ UNCHANGED <<snapVars, otherThanMove>>

\* a nudge only for a character that walks
nudgeWhenWalking(wasStuck, areaNow) == ~canTeleport

\* line 1178: the nudge after ErrPlayerStuck or ErrPlayerRoundTrip
nudgeWhenStuck(wasStuck, areaNow) == (~canTeleport \/ wasStuck) \/ IsTown(areaNow)

\* the lengths of the paths GetPath finds: a path holds the position of the
\* avatar at least
PathLens == {1, 12}

\* the areas of the calls in which GetPath finds paths of more than one node,
\* and enemies are on the path
LongPathAreas == {"RockyWaste"}

walkPathStep == 8      \* line 1150
combatPathStep == 3    \* line 1153

\* line 1160 without the length of the path
pathStepUnclamped(maxPathStep, pathLen) == maxPathStep

\* line 1160: pathStep = min(maxPathStep, len(path)-1)
pathStepFor(maxPathStep, pathLen) ==
  IF maxPathStep <= pathLen - 1 THEN maxPathStep ELSE pathLen - 1

\* pathStep > 0 at the step of the last iteration
mvPathStepPositive == mvChoice.pathStep > 0

\* lines 1140-1202: the step along the path, the handling of its error, and
\* the bookkeeping after a step without error; onScreen: what
\* GetLastPathIndexOnScreen returns, the first or the last index of the path
MoveToStep(t, areaNow) ==
  \E moveErr \in MoveErrors \cup {"nil"}, samePosition \in BOOLEAN,
     onScreen \in {"first", "last"} :
    LET maxPathStep == IF ~canTeleport
                       THEN IF t.choice.enemy THEN combatPathStep ELSE walkPathStep
                       ELSE IF onScreen = "last" THEN t.path - 1 ELSE 0
        pathStep == IF IsTown(areaNow) THEN 0 ELSE pathStepFor(maxPathStep, t.path)
        i == [t EXCEPT !.choice = [@ EXCEPT !.pathLen = t.path, !.pathStep = pathStep]]
    IN /\ samePosition => moveErr = "nil"
       /\ onScreen = "last" => (canTeleport /\ ~IsTown(areaNow))
       /\ IF ~IsTown(areaNow) /\ pathStep \notin 0..(t.path - 1)
          THEN /\ moveErr = "nil" /\ ~samePosition
               /\ MoveReturn(i, "index out of range")
          ELSE LET s == [i EXCEPT !.events = @ \cup {"step.MoveTo"},
                                  !.adjustMinDist = FALSE, !.near = FALSE,
                                  !.moveErr = moveErr]
                   e == [s EXCEPT !.previousTargetPosition = ZeroPosition]
               IN IF moveErr = "nil"
                  THEN MoveApply([s EXCEPT !.adjustMinDist = samePosition, !.stuck = FALSE,
                                           !.path = IF IsTown(areaNow) THEN @
                                                    ELSE @ - pathStep])
                  ELSE IF moveErr = "ErrMonstersInPath"
                  THEN MoveApply(e)
                  ELSE IF moveErr \in {"ErrPlayerStuck", "ErrPlayerRoundTrip"}
                  THEN MoveApply([e EXCEPT
                                    !.events = IF nudgeWhenStuck(t.stuck, areaNow)
                                               THEN @ \cup {"RandomMovement"} ELSE @,
                                    !.stuck = TRUE])
                  ELSE IF moveErr = "ErrNoPath" /\ pathStep > 0
                  THEN MoveApply([e EXCEPT !.events = @ \cup {"RandomMovement"}])
                  ELSE MoveReturn(e, moveErr)

\* getValidTeleportPads: the pads of the area that are not blacklisted
getValidTeleportPads(blacklisted) ==
  SelectSeq(AreaPads, LAMBDA pad : pad \notin blacklisted)

\* getArcaneNextTeleportPadPosition: among the valid pads a path is found
\* to, the first of the least path distance; ErrArcaneDeadEnd without one
getArcaneNextTeleportPadPosition(blacklisted, reachable, distance) ==
  LET pads == getValidTeleportPads(blacklisted)
      found == {i \in 1..Len(pads) : pads[i] \in reachable}
  IN IF found = {}
     THEN [pad |-> NoObject, err |-> "ErrArcaneDeadEnd"]
     ELSE [pad |-> pads[CHOOSE i \in found : \A j \in found :
                          \/ distance[pads[i]] < distance[pads[j]]
                          \/ distance[pads[i]] = distance[pads[j]] /\ i <= j],
           err |-> "nil"]

\* getClosestTeleportPad: a valid pad (the closest one of the snapshot), the
\* zero object when no pad is valid
getClosestTeleportPad(blacklisted) ==
  IF Len(getValidTeleportPads(blacklisted)) = 0 THEN {NoObject}
  ELSE PadIDs \ blacklisted

\* lines 1091-1136: the target is reached; a shrine is interacted with and
\* blacklisted, a chest is interacted with and blacklisted when the
\* interaction fails, the final destination ends the call
MoveToArrived(t) ==
  IF t.shrine # NoObject
  THEN MoveApply([t EXCEPT !.events = @ \cup {"InteractObject"},
                           !.blacklistedInteractions = (t.shrine :> TRUE) @@ @,
                           !.shrine = NoObject, !.near = FALSE])
  ELSE IF t.chest # NoObject
  THEN \E interactErr \in BOOLEAN :
         MoveApply([t EXCEPT
                      !.events = @ \cup {"InteractObject"}
                                   \cup (IF mvCall.ignoreItems THEN {} ELSE {"ItemPickup"}),
                      !.blacklistedInteractions =
                         IF interactErr THEN (t.chest :> TRUE) @@ @ ELSE @,
                      !.chest = NoObject, !.near = FALSE])
  ELSE IF t.tpPad # NoObject
  THEN \E interactErr \in BOOLEAN :
         IF interactErr
         THEN MoveReturn([t EXCEPT !.events = @ \cup {"InteractObject"}],
                         "interaction failed")
         ELSE \E exitPad \in getClosestTeleportPad(t.blacklistedPads) :
                MoveApply([t EXCEPT !.events = @ \cup {"InteractObject"},
                                    !.tpPad = NoObject,
                                    !.blacklistedPads = @ \cup {exitPad},
                                    !.near = FALSE])
  ELSE MoveReturn(t, "nil")

\* lines 1046-1138: the target of the iteration (tpPad of the function is
\* never assigned: line 1067 declares another one), the path to it, and the
\* distance left
MoveToTarget(t, areaNow) ==
  LET targetPosition == IF t.shrine # NoObject THEN t.shrine
                        ELSE IF t.chest # NoObject THEN t.chest
                        ELSE IF t.tpPad # NoObject THEN t.tpPad
                        ELSE ToPosition
      recompute == t.previousTargetPosition # targetPosition \/ ~t.pathFound
  IN \E found \in BOOLEAN, distance \in Distances, newLen \in PathLens :
       /\ ~recompute => found
       /\ (~recompute \/ ~found \/ mvCall.initialArea \notin LongPathAreas) => newLen = 1
       /\ reached(distance, t.adjustMinDist) => newLen = 1
       /\ ~found => distance = "within"
       /\ (targetPosition = ToPosition /\ t.near) => distance = "within"
       /\ distance = "double" => t.adjustMinDist
       /\ LET p == [t EXCEPT !.previousTargetPosition = targetPosition,
                             !.pathFound = found, !.recomputed = recompute,
                             !.path = IF ~recompute THEN @ ELSE IF found THEN newLen ELSE 0,
                             !.choice = [@ EXCEPT !.shrine = t.shrine, !.chest = t.chest,
                                                  !.target = targetPosition]]
          IN IF ~found
             THEN IF areaNow = "ArcaneSanctuary"
                  THEN \E reachable \in SUBSET PadIDs, padDistance \in PadDistances :
                         LET next == getArcaneNextTeleportPadPosition(
                                       t.blacklistedPads, reachable, padDistance)
                         IN IF next.err # "nil"
                            THEN MoveReturn(p, next.err)
                            ELSE MoveApply([p EXCEPT
                                              !.blacklistedPads = @ \cup {next.pad},
                                              !.pad = next.pad])
                  ELSE MoveReturn(p, "path could not be calculated")
             ELSE IF reached(distance, p.adjustMinDist)
             THEN MoveToArrived(p)
             ELSE MoveToStep(p, areaNow)

\* lines 990-1044: outside town, the monsters around the avatar, the loot,
\* the shrine and the chest nearby, and onSafeNavigation; safeActs: no enemy
\* is around and onSafeNavigation has points to spend or a potion to drink
MoveToField(t, areaNow) ==
  LET searchShrine == ~mvCall.ignoreShrines /\ t.shrine = NoObject
  IN \E elapsed \in BOOLEAN, closestShrine \in ShrineIDs \cup {NoObject},
        closestChest \in ChestIDs \cup {NoObject}, safeActs \in BOOLEAN,
        enemyFound \in BOOLEAN :
       LET combat == handleMonsters(t.actionLastMonsterHandlingTime, elapsed)
           takeShrine == /\ searchShrine
                         /\ closestShrine # NoObject
                         /\ notBlacklisted(t.blacklistedInteractions, closestShrine)
           shrineNow == IF takeShrine THEN closestShrine ELSE t.shrine
           chestKept == chestAfterShrine(takeShrine, t.chest)
           searchChest == /\ mvCall.interactWithChests
                          /\ shrineNow = NoObject
                          /\ chestKept = NoObject
           takeChest == /\ searchChest
                        /\ closestChest # NoObject
                        /\ notBlacklisted(t.blacklistedInteractions, closestChest)
       IN /\ ~elapsed => (combatEnabled /\ t.actionLastMonsterHandlingTime = "set")
          /\ enemyFound => (~safeActs /\ ~canTeleport /\ mvCall.initialArea \in LongPathAreas)
          /\ closestShrine # NoObject => searchShrine
          /\ closestChest # NoObject => searchChest
          /\ MoveToTarget(
               [t EXCEPT
                  !.events = (IF combat
                              THEN {"ClearAreaAroundPosition"}
                                     \cup (IF mvCall.ignoreItems THEN {} ELSE {"ItemPickup"})
                              ELSE {})
                             \cup (IF safeActs THEN {"onSafeNavigation"} ELSE {}),
                  !.actionLastMonsterHandlingTime = IF combat THEN "set" ELSE @,
                  !.shrine = shrineNow,
                  !.chest = IF takeChest THEN closestChest ELSE chestKept,
                  !.offered = [shrine |-> closestShrine, chest |-> closestChest],
                  !.choice = [@ EXCEPT !.elapsed = elapsed, !.enemy = enemyFound],
                  !.near = @ /\ ~combat /\ ~safeActs],
               areaNow)

\* lines 967-1203: one iteration of the loop of MoveTo; toFunc is the one of
\* MoveToCoords, which always finds its position
MoveToTick(areaNow, dead, targetInTown) ==
  /\ areaNow \in {mvCall.initialArea, actTownWaypoints[Act(mvCall.initialArea)]}
  /\ playerArea' = areaNow
  /\ LET t == [MoveLocals EXCEPT !.events = {},
                                 !.offered = [shrine |-> NoObject, chest |-> NoObject],
                                 !.choice = NoChoice,
                                 !.near = @ /\ areaNow = playerArea,
                                 !.dead = dead, !.recomputed = FALSE, !.pad = NoObject,
                                 !.moveErr = "none"]
         townWait == ~IsTown(mvCall.initialArea) /\ IsTown(areaNow)
     IN IF checkPlayerDeath(areaNow, dead) # "nil"
        THEN ~targetInTown /\ MoveReturn(t, "ErrDied")
        ELSE /\ targetInTown => townWait
             /\ IF townWait /\ ~targetInTown
                THEN MoveApply(t)
                ELSE IF IsTown(areaNow)
                THEN MoveToTarget(t, areaNow)
                ELSE MoveToField(t, areaNow)
  /\ UNCHANGED <<mvCall, mvMenusClosed, availableWaypoints, adjacentLevels,
                 canTeleport, mapOrder, otherThanMove>>

\* the iterations of a call, up to MaxTicks of them, and up to MaxNearTicks
\* of a call made at the target
MoveToLoop(areaNow, dead, targetInTown) ==
  /\ mvPc = "loop"
  /\ mvTicks < MaxTicks
  /\ mvCall.near => mvTicks < MaxNearTicks
  /\ mvTicks' = mvTicks + 1
  /\ MoveToTick(areaNow, dead, targetInTown)

MoveNext ==
  \/ \E options \in MoveOptions, near \in BOOLEAN, dead \in BOOLEAN,
        menuOpen \in BOOLEAN, closeErr \in BOOLEAN :
       MoveToCoordsCall(options, near, dead, menuOpen, closeErr)
  \/ \E areaNow \in MoveStarts, dead \in BOOLEAN, targetInTown \in BOOLEAN :
       MoveToLoop(areaNow, dead, targetInTown)

MoveSpec == MoveInit /\ [][MoveNext]_vars

\* MoveTo has returned
MoveReturned == mvPc = "done"

\* the iterations of a call for as long as the loop goes on, counted from 1
\* to MaxTicks and again
MoveToLoopOn(areaNow, dead, targetInTown) ==
  /\ mvPc = "loop"
  /\ mvTicks' = (mvTicks % MaxTicks) + 1
  /\ MoveToTick(areaNow, dead, targetInTown)

\* a call that ignores monsters, items, shrines and chests, for an avatar
\* that stays alive where it was called
MoveLiveNext ==
  \/ \E near \in BOOLEAN, menuOpen \in BOOLEAN, closeErr \in BOOLEAN :
       MoveToCoordsCall(<<TRUE, TRUE, FALSE, TRUE, FALSE>>, near, FALSE, menuOpen, closeErr)
  \/ \E areaNow \in MoveStarts : MoveToLoopOn(areaNow, FALSE, FALSE)

\* the loop keeps iterating
MoveLiveSpec == MoveInit /\ [][MoveLiveNext]_vars /\ WF_vars(MoveLiveNext)

\* id has an entry in the blacklist m, and the entry is true
IsBlacklisted(m, id) == id \in DOMAIN m /\ m[id]

\* C6: within one MoveTo call no entry of the blacklist is removed or reset to
\* false, the object that becomes the active shrine or chest of an iteration
\* is not one blacklisted before it, and the active shrine or chest is never
\* a blacklisted one.
C6_BlacklistOnlyGrowsAndExcludes ==
  [][/\ \A id \in DOMAIN blacklistedInteractions :
          blacklistedInteractions[id] => IsBlacklisted(blacklistedInteractions', id)
     /\ (shrine' # NoObject /\ shrine' # shrine) =>
          ~IsBlacklisted(blacklistedInteractions, shrine')
     /\ (chest' # NoObject /\ chest' # chest) =>
          ~IsBlacklisted(blacklistedInteractions, chest')
     /\ ~IsBlacklisted(blacklistedInteractions', shrine')
     /\ ~IsBlacklisted(blacklistedInteractions', chest')]_vars

\* a later iteration was offered a shrine blacklisted before it, and left it
C6_Witness ==
  /\ mvPc = "loop"
  /\ "InteractObject" \notin mvEvents
  /\ IsBlacklisted(blacklistedInteractions, mvOffered.shrine)
  /\ shrine = NoObject

\* a later iteration was offered a chest blacklisted before it, and left it
C6_WitnessChest ==
  /\ mvPc = "loop"
  /\ "InteractObject" \notin mvEvents
  /\ IsBlacklisted(blacklistedInteractions, mvOffered.chest)
  /\ chest = NoObject

C7_QuietFirstTick ==
  /\ mvCall.near
  /\ mvTicks = 1
  /\ ~mvMenusClosed
  /\ mvErr # "ErrDied"
  /\ playerArea = mvCall.initialArea
  /\ pathFound
  /\ \/ IsTown(playerArea)
     \/ /\ ~combatEnabled
        /\ mvOffered = [shrine |-> NoObject, chest |-> NoObject]
        /\ "onSafeNavigation" \notin mvEvents

MoveTicked == mvTicks > 0

\* the iteration returned ErrDied before it did anything else
DiedAtOnce ==
  /\ mvPc = "done"
  /\ mvErr = "ErrDied"
  /\ mvEvents = {}
  /\ ~mvRecomputed
  /\ mvPad = NoObject
  /\ mvMoveErr = "none"
  /\ mvOffered = [shrine |-> NoObject, chest |-> NoObject]

C25_WitnessDeadInTown ==
  /\ MoveTicked
  /\ mvDead
  /\ IsTown(playerArea)
  /\ "step.MoveTo" \in mvEvents


\* the iteration asked getArcaneNextTeleportPadPosition and received a pad
PadReceived == mvPad # NoObject

\* C26 as stated: in Arcane Sanctuary, when no path to the target is found
\* and a reachable pad that is not blacklisted exists, the nearest such pad
\* becomes the target of the following iterations, and a pad enters the
\* blacklist only in an iteration that interacts with a pad.
C26_PadBecomesTheTarget ==
  [][/\ PadReceived' => (tpPad' = mvPad' /\ blacklistedPads' = blacklistedPads)
     /\ blacklistedPads' # blacklistedPads => "InteractObject" \in mvEvents']_vars

\* what the loop does instead: the pad received is blacklisted in the same
\* iteration, without a step towards it and without an interaction, and
\* tpPad of the function stays the zero object
C26_PadBlacklistedUnvisited ==
  [][PadReceived' =>
       /\ playerArea' = "ArcaneSanctuary"
       /\ ~pathFound'
       /\ mvPad' \notin blacklistedPads
       /\ blacklistedPads' = blacklistedPads \cup {mvPad'}
       /\ tpPad' = NoObject
       /\ mvPc' = "loop"
       /\ mvEvents' \cap {"step.MoveTo", "InteractObject"} = {}]_vars

\* tpPad is never assigned, so no pad is ever the target
C26_NoPadIsEverTheTarget == tpPad = NoObject

\* every pad is blacklisted and none was visited
C26_AllPadsBlacklisted ==
  /\ blacklistedPads = PadIDs
  /\ mvPc = "loop"

\* ErrArcaneDeadEnd comes only from a path failure in Arcane Sanctuary
C26_DeadEndOnlyInArcane ==
  mvErr = "ErrArcaneDeadEnd" =>
    /\ playerArea = "ArcaneSanctuary"
    /\ ~pathFound
    /\ mvRecomputed

\* the step of the iteration failed
StepFailed == mvMoveErr \notin {"none", "nil"}

\* the iteration waited for the avatar to leave the town
TownWait ==
  /\ mvPc = "loop"
  /\ ~IsTown(mvCall.initialArea)
  /\ IsTown(playerArea)
  /\ mvEvents = {}

C27_WitnessNoNudge ==
  /\ mvPc = "loop"
  /\ mvMoveErr \in {"ErrPlayerStuck", "ErrPlayerRoundTrip"}
  /\ stuck
  /\ "RandomMovement" \notin mvEvents

\* ErrNoPath at index 0 ended the call
C27_WitnessNoPathAtStart ==
  /\ mvPc = "done"
  /\ mvMoveErr = "ErrNoPath"
  /\ mvErr = "ErrNoPath"
  /\ ~mvPathStepPositive

\* C33: ClearAreaAroundPosition is invoked only in an iteration outside
\* town, of a call without IgnoreMonsters, for an avatar that cannot teleport
\* or with a ClearPathOverride, and with more than the cooldown elapsed since
\* the last handling of the call; the loot pickup that is not the one of a
\* chest is made only after it.
C33_CombatOnlyWhenDue ==
  /\ "ClearAreaAroundPosition" \in mvEvents =>
       /\ ~IsTown(playerArea)
       /\ ~mvCall.ignoreMonsters
       /\ (~canTeleport \/ mvCall.clearPathOverride)
       /\ mvChoice.elapsed
  /\ ("ItemPickup" \in mvEvents /\ "InteractObject" \notin mvEvents) =>
       "ClearAreaAroundPosition" \in mvEvents

\* a later iteration handled the monsters again, the cooldown over, and
\* picked the loot up
C33_Witness ==
  /\ mvTicks >= 2
  /\ {"ClearAreaAroundPosition", "ItemPickup"} \subseteq mvEvents
  /\ "InteractObject" \notin mvEvents
  /\ mvChoice.elapsed

\* a later iteration left the monsters alone within the cooldown
C33_WitnessCooldown ==
  /\ mvTicks >= 2
  /\ combatEnabled
  /\ ~IsTown(playerArea)
  /\ ~mvChoice.elapsed
  /\ "ClearAreaAroundPosition" \notin mvEvents

\* C34: where the iteration chooses its target, a shrine and a chest are
\* never both active; a shrine that becomes active leaves no chest active; a
\* chest becomes active only without a shrine; and with a shrine active the
\* target is the position of the shrine.
C34_ShrineAndChestExclusive ==
  [][(mvTicks' = mvTicks + 1 /\ mvChoice'.target # ZeroPosition) =>
       /\ ~(mvChoice'.shrine # NoObject /\ mvChoice'.chest # NoObject)
       /\ (shrine = NoObject /\ mvChoice'.shrine # NoObject) => mvChoice'.chest = NoObject
       /\ (chest = NoObject /\ mvChoice'.chest # NoObject) =>
            (shrine = NoObject /\ mvChoice'.shrine = NoObject)
       /\ mvChoice'.shrine # NoObject => mvChoice'.target = mvChoice'.shrine]_vars

\* a later iteration of a call that opens chests took the shrine it was
\* offered and made it its target
C34_Witness ==
  /\ mvTicks >= 2
  /\ mvCall.interactWithChests
  /\ mvOffered.shrine # NoObject
  /\ mvChoice.shrine = mvOffered.shrine
  /\ mvChoice.chest = NoObject
  /\ mvChoice.target = mvChoice.shrine

\* an iteration took the chest it was offered, no shrine being active
C34_WitnessChest ==
  /\ mvChoice.chest # NoObject
  /\ mvChoice.chest = mvOffered.chest
  /\ mvChoice.shrine = NoObject
  /\ mvChoice.target = mvChoice.chest

\* the last iteration picked an index of the path outside town
PickedPathStep ==
  /\ MoveTicked
  /\ ~IsTown(playerArea)
  /\ "step.MoveTo" \in mvEvents

\* C35: outside town the index picked for the step is within
\* [0, len(path)-1], at most 8 for an avatar that walks with no enemy around
\* and at most 3 with enemies around; a step without error trims the path
\* by the index, the path found never becomes empty, and no iteration
\* indexes it out of range.
C35_PathIndexInRange ==
  /\ mvErr # "index out of range"
  /\ (mvPc = "loop" /\ pathFound) => mvPath >= 1
  /\ PickedPathStep =>
       /\ mvChoice.pathStep \in 0..(mvChoice.pathLen - 1)
       /\ (~canTeleport /\ ~mvChoice.enemy) => mvChoice.pathStep <= walkPathStep
       /\ (~canTeleport /\ mvChoice.enemy) => mvChoice.pathStep <= combatPathStep
       /\ mvPath = IF mvMoveErr = "nil" THEN mvChoice.pathLen - mvChoice.pathStep
                   ELSE mvChoice.pathLen
       /\ mvPath >= 1

\* an avatar that walks with enemies around took the index 3 of a longer
\* path, and the path was trimmed by 3
C35_Witness ==
  /\ PickedPathStep
  /\ ~canTeleport
  /\ mvChoice.enemy
  /\ mvChoice.pathStep = combatPathStep
  /\ mvMoveErr = "nil"
  /\ mvPath = mvChoice.pathLen - combatPathStep

\* an avatar that walks took the index 8, and then the last index of what
\* was left of the path
C35_WitnessLastIndex ==
  /\ PickedPathStep
  /\ ~canTeleport
  /\ mvTicks >= 2
  /\ ~mvRecomputed
  /\ mvChoice.pathStep = mvChoice.pathLen - 1
  /\ mvChoice.pathStep \in 1..(walkPathStep - 1)
  /\ mvPath = 1

\* the errors of a step MoveTo goes on after
RetryErrors == {"ErrPlayerStuck", "ErrPlayerRoundTrip", "ErrMonstersInPath"}

\* the last iteration went on, and not after a step that failed with one of
\* RetryErrors
WentOnOtherwise ==
  /\ mvPc = "loop"
  /\ MoveTicked
  /\ mvMoveErr \notin RetryErrors

\* C39 as stated: a MoveTo call whose steps all fail with ErrPlayerStuck,
\* ErrPlayerRoundTrip or ErrMonstersInPath, for an avatar that stays alive
\* and a target that stays provided, eventually returns.
C39_StuckCallGivesUp == <>(MoveReturned \/ WentOnOtherwise)

\* the second step in a row has failed for a stuck avatar, and the loop goes
\* on as after the first
C39_StillRetrying ==
  /\ mvPc = "loop"
  /\ mvTicks >= 2
  /\ stuck
  /\ mvMoveErr \in RetryErrors
  /\ mvErr = "none"

(***************************************************************************)
(* SelSpec: selectWaypoint, one iteration of its loop at a time.  What the *)
(* refreshes show (the area, the waypoint menu) and whether the waypoint   *)
(* object could be interacted with are the inputs of the iteration.        *)
(***************************************************************************)
selectWaypointTries == 3     \* line 163: for range 3

\* the areas selectWaypoint is called in, and its destinations
SelStarts == {"RogueEncampment", "LutGholein", "ColdPlains"}
SelDests == {"ColdPlains", "StonyField", "LutGholein", "KurastDocks"}

SelInit ==
  /\ availableWaypoints = {}
  /\ adjacentLevels = {}
  /\ canTeleport = FALSE
  /\ mapOrder = "asc"
  /\ playerArea \in SelStarts
  /\ RouteIdle
  /\ SearchIdle
  /\ WayIdle
  /\ MtaIdle
  /\ EntIdle
  /\ MoveIdle
  /\ SelIdle
  /\ OverlayIdle
  /\ PayloadIdle
  /\ NestIdle
  /\ PathIdle
  /\ GridIdle
  /\ InstanceIdle
  /\ SyncIdle

\* a loop that goes round once more
selectWaypointLoopsLonger(tries) == tries < selectWaypointTries + 1

\* line 163: the loop goes round again
selectWaypointLoops(tries) == tries < selectWaypointTries

\* selectWaypoint returns err
SelReturn(err) ==
  /\ selPc' = "done"
  /\ selErr' = err

\* lines 161-162
SelectWaypointCall(dest) ==
  /\ selPc = "idle"
  /\ dest # playerArea
  /\ selPc' = "loop"
  /\ selDest' = dest
  /\ UNCHANGED <<selTries, selMenu, selLog, selErr>>
  /\ UNCHANGED <<snapVars, otherThanSel>>

\* lines 163-206: one iteration.  areaNow and menuNow are the area and
\* OpenMenus.Waypoint the refresh of line 168 shows; opened tells whether
\* openWaypointMenu returned nil, menuAfter what OpenMenus.Waypoint is at
\* line 183, areaAfter the area the refresh of line 205 shows.
SelectWaypointTry(areaNow, menuNow, opened, menuAfter, areaAfter) ==
  /\ selPc = "loop"
  /\ selectWaypointLoops(selTries)
  /\ areaNow \in {playerArea, selDest}
  /\ areaAfter \in {areaNow, selDest}
  /\ selTries' = selTries + 1
  /\ UNCHANGED selDest
  /\ IF areaNow = selDest
     THEN /\ opened /\ menuAfter = menuNow /\ areaAfter = areaNow
          /\ playerArea' = areaNow
          /\ SelReturn("nil")
          /\ selMenu' = menuNow
          /\ UNCHANGED selLog
     ELSE /\ \E sync \in ensureAreaSync(areaNow, areaNow) : sync.err = "nil"
          /\ menuNow => (opened /\ menuAfter)
          /\ IF ~opened
             THEN /\ ~menuAfter /\ areaAfter = areaNow
                  /\ playerArea' = areaNow
                  /\ selLog' = Append(selLog, "waypoint")
                  /\ selMenu' = FALSE
                  /\ SelReturn("openWaypointMenu failed")
             ELSE LET log == IF menuNow THEN selLog ELSE Append(selLog, "waypoint")
                  IN IF ~menuAfter
                     THEN /\ areaAfter = areaNow
                          /\ playerArea' = areaNow
                          /\ selLog' = log
                          /\ selMenu' = FALSE
                          /\ SelReturn("failed to open waypoint menu")
                     ELSE /\ playerArea' = areaAfter
                          /\ selLog' = log \o <<"tab", "row">>
                          /\ selMenu' = TRUE
                          /\ UNCHANGED <<selPc, selErr>>
  /\ UNCHANGED <<availableWaypoints, adjacentLevels, canTeleport, mapOrder, otherThanSel>>

\* lines 207-210: after the loop
SelectWaypointAfter ==
  /\ selPc = "loop"
  /\ ~selectWaypointLoops(selTries)
  /\ IF playerArea = selDest
     THEN SelReturn("nil")
     ELSE SelReturn("failed to select waypoint destination")
  /\ UNCHANGED <<selDest, selTries, selMenu, selLog>>
  /\ UNCHANGED <<snapVars, otherThanSel>>

SelNext ==
  \/ \E dest \in SelDests : SelectWaypointCall(dest)
  \/ \E areaNow \in SelStarts \cup SelDests, menuNow \in BOOLEAN, opened \in BOOLEAN,
        menuAfter \in BOOLEAN, areaAfter \in SelStarts \cup SelDests :
       SelectWaypointTry(areaNow, menuNow, opened, menuAfter, areaAfter)
  \/ SelectWaypointAfter

SelSpec == SelInit /\ [][SelNext]_vars

\* the clicks of kind k in the log
SelClicks(k) == Cardinality({i \in DOMAIN selLog : selLog[i] = k})

\* C11: selectWaypoint starts at most 3 iterations; every act-tab click is
\* followed at once by one destination-row click and every row click follows
\* a tab click, with at most one pair per iteration; the iteration whose
\* refresh shows the destination returns nil without a click; and the call
\* that went through its third iteration returns an error exactly when the
\* area is not the destination.
C11_ThreeAttemptsOfTwoClicks ==
  [][/\ selTries' <= selectWaypointTries
     /\ SelClicks("tab")' <= selTries' /\ SelClicks("tab")' = SelClicks("row")'
     /\ \A i \in DOMAIN selLog' :
          /\ selLog'[i] = "tab" => (i < Len(selLog') /\ selLog'[i + 1] = "row")
          /\ selLog'[i] = "row" => (i > 1 /\ selLog'[i - 1] = "tab")
     /\ (selTries' = selTries + 1 /\ playerArea' = selDest /\ selPc' = "done"
           /\ selErr' = "nil") => selLog' = selLog
     /\ (selPc = "loop" /\ selPc' = "done" /\ selTries' = selTries) =>
          /\ selTries = selectWaypointTries
          /\ selLog' = selLog
          /\ (selErr' # "nil") <=> (playerArea' # selDest)]_vars

\* the third pair of clicks left the avatar where it was and the call failed
C11_Witness ==
  /\ selPc = "done"
  /\ selTries = selectWaypointTries
  /\ SelClicks("tab") = selectWaypointTries
  /\ selErr = "failed to select waypoint destination"

(***************************************************************************)
(* The routes of RouteSpec in the scenarios the specification works out.   *)
(***************************************************************************)
\* the avatar is in ColdPlains, holds the waypoints of RogueEncampment and
\* InnerCloister, can teleport, and asked for the route to Cathedral
WaypointPreferenceScenario ==
  /\ playerArea = "ColdPlains"
  /\ availableWaypoints = {"RogueEncampment", "InnerCloister"}
  /\ canTeleport
  /\ routeDst = "Cathedral"

\* C12 as stated: in that scenario the route returned has InnerCloister
\* immediately after ColdPlains, the direct waypoint edge.
C12_DirectWaypointEdge ==
  WaypointPreferenceScenario =>
    /\ routeErr = "nil"
    /\ Len(route) >= 2
    /\ route[1] = "ColdPlains"
    /\ route[2] = "InnerCloister"

\* what the code returns in that scenario: through the town of the act
C12_RouteThroughTown ==
  WaypointPreferenceScenario =>
    /\ routeErr = "nil"
    /\ route = <<"ColdPlains", "RogueEncampment", "InnerCloister", "Cathedral">>

\* the avatar is in BloodMoor with no waypoint discovered and no adjacent
\* level beyond the static table, and asked for the route to Cathedral
AreaRouteScenario ==
  /\ playerArea = "BloodMoor"
  /\ availableWaypoints = {}
  /\ adjacentLevels = {}
  /\ routeDst = "Cathedral"

\* b is in the static list of a
IsStaticEdge(a, b) == b \in Range(staticNeighbors(a))

\* C13: with no waypoint discovered and no dynamic adjacency the route from
\* BloodMoor to Cathedral starts at BloodMoor, ends with InnerCloister,
\* Cathedral, steps along static edges only, and is as long as the path of
\* staticAreaPath.
C13_ShortestStaticRoute ==
  AreaRouteScenario =>
    /\ routeErr = "nil"
    /\ Len(route) >= 3
    /\ route[1] = "BloodMoor"
    /\ route[Len(route) - 1] = "InnerCloister"
    /\ route[Len(route)] = "Cathedral"
    /\ \A i \in 1..(Len(route) - 1) : IsStaticEdge(route[i], route[i + 1])
    /\ staticAreaPath("BloodMoor", "Cathedral").ok
    /\ Len(route) = Len(staticAreaPath("BloodMoor", "Cathedral").path)

\* the route of that scenario was built, and it walks more than ten areas
C13_Witness ==
  /\ AreaRouteScenario
  /\ routeErr = "nil"
  /\ Len(route) > 10

(***************************************************************************)
(* The cheapest routes of the effective graph, computed without the        *)
(* priority queue of weightedAreaPath: labels are corrected until none     *)
(* improves.  Costs are in tenths, as adjacencyCost is.                    *)
(***************************************************************************)
\* the least number of a nonempty set
MinOf(S) == CHOOSE x \in S : \A y \in S : x <= y

\* the cost rule of the specification for the edge u -> v: 1.0 for a physical
\* adjacency, 1.5 for the waypoint hop to the town of u's act, 1.1 or 2.0 for
\* another waypoint hop, and the smaller one for an edge of both kinds
EdgeCostRule(ctx, u, v) ==
  LET hop == IF v = actTownWaypoints[Act(u)] THEN 15
             ELSE IF ctx.CanTeleport THEN 11 ELSE 20
      physical == v \in collectNeighbors(ctx, u)
      waypoint == v \in collectWaypointNeighbors(u, ctx.AvailableWaypoints)
  IN IF physical /\ waypoint THEN MinOf({10, hop})
     ELSE IF physical THEN 10
     ELSE hop

\* the effective graph: for each area the cost of each edge out of it
EffectiveEdges(ctx) ==
  [u \in Areas |->
     [v \in collectNeighbors(ctx, u)
              \cup collectWaypointNeighbors(u, ctx.AvailableWaypoints) |->
        EdgeCostRule(ctx, u, v)] @@ EmptyMap] @@ EmptyMap

\* the labels D corrected from the areas of F, whose labels improved last
RECURSIVE cheapestFrom(_, _, _)
cheapestFrom(edges, D, F) ==
  IF F = {}
  THEN D
  ELSE Bind(UNION {{<<v, D[u] + edges[u][v]>> : v \in DOMAIN edges[u]} : u \in F},
            LAMBDA offers :
              Bind({o[1] : o \in {p \in offers : p[1] \notin DOMAIN D \/ p[2] < D[p[1]]}},
                   LAMBDA better :
                     cheapestFrom(edges,
                                  [v \in better |->
                                     MinOf({o[2] : o \in {p \in offers : p[1] = v}})] @@ D,
                                  better)))

\* the cost of the cheapest route from start to each area it reaches
CheapestCosts(ctx, start) ==
  Bind(EffectiveEdges(ctx), LAMBDA edges : cheapestFrom(edges, start :> 0, {start}))

\* the total cost of a route under the cost rule
RECURSIVE RouteCost(_, _)
RouteCost(ctx, r) ==
  IF Len(r) <= 1 THEN 0
  ELSE EdgeCostRule(ctx, r[1], r[2]) + RouteCost(ctx, Tail(r))

\* C14: the route weightedAreaPath returns runs from start to goal along
\* edges of the effective graph and no route from start to goal costs less
\* under the cost rule (1.0 physical, 1.1 or 2.0 waypoint hop, 1.5 hop to the
\* act's town, the smaller of two); no route is returned exactly when the
\* goal cannot be reached.
C14_RouteOfLeastCost ==
  routeDst # NoArea =>
    \A costs \in {CheapestCosts(ctxData, playerArea)} :
      /\ (routeErr # "nil") <=> (routeDst \notin DOMAIN costs)
      /\ routeErr = "nil" =>
           /\ route[1] = playerArea
           /\ route[Len(route)] = routeDst
           /\ \A i \in 1..(Len(route) - 1) :
                route[i + 1] \in collectNeighbors(ctxData, route[i])
                  \cup collectWaypointNeighbors(route[i], availableWaypoints)
           /\ RouteCost(ctxData, route) = costs[routeDst]

\* a route was returned that hops between waypoints although a walk along
\* physical edges exists
C14_Witness ==
  /\ routeErr = "nil"
  /\ routeDst = "Cathedral"
  /\ playerArea = "StonyField"
  /\ \E i \in 1..(Len(route) - 1) : route[i + 1] \notin collectNeighbors(ctxData, route[i])

(***************************************************************************)
(* The grid builder (package game).  The source holds two variants of the  *)
(* file: part_001 (DiagonalTile, dilation in every act, canTeleport passed *)
(* down) and part_002 (dilation in act 1 and towns only, passes in another *)
(* order).  A collision matrix is a function from the row index y to a     *)
(* function from the column index x to a CollisionType, both from 0.       *)
(***************************************************************************)
CollisionTypeNonWalkable == "NonWalkable"
CollisionTypeWalkable == "Walkable"
CollisionTypeLowPriority == "LowPriority"
CollisionTypeMonster == "Monster"
CollisionTypeObject == "Object"
CollisionTypeTeleportOver == "TeleportOver"
CollisionTypeThickened == "Thickened"
CollisionTypeDiagonalTile == "DiagonalTile"

CollisionType ==
  {CollisionTypeNonWalkable, CollisionTypeWalkable, CollisionTypeLowPriority,
   CollisionTypeMonster, CollisionTypeObject, CollisionTypeTeleportOver,
   CollisionTypeThickened, CollisionTypeDiagonalTile}

\* len(s) of a slice
len(s) == Cardinality(DOMAIN s)

\* part_001 lines 77-85
isBlockingTile(tile, teleport) ==
  IF tile \in {CollisionTypeNonWalkable, CollisionTypeObject, CollisionTypeMonster}
  THEN TRUE
  ELSE IF ~teleport /\ tile = CollisionTypeTeleportOver
  THEN TRUE
  ELSE tile = CollisionTypeThickened

\* part_002 lines 85-96
isBlockingTileEarlier(tile, teleport) ==
  CASE tile = CollisionTypeNonWalkable -> TRUE
    [] tile = CollisionTypeTeleportOver -> ~teleport
    [] tile = CollisionTypeThickened -> ~teleport
    [] OTHER -> FALSE

\* the blocking test as the passes of variant b make it: part_002 passes false
\* for canTeleport at every call (lines 52, 272, 283, 298)
blocking(b, tile, teleport) ==
  IF b = "part_001" THEN isBlockingTile(tile, teleport)
  ELSE isBlockingTileEarlier(tile, FALSE)

\* part_001 lines 87-89
baseWalkable(ct) == ct = CollisionTypeWalkable \/ ct = CollisionTypeLowPriority

\* part_001 lines 91-93
isWalkableType(ct) ==
  ct = CollisionTypeWalkable \/ ct = CollisionTypeLowPriority
    \/ ct = CollisionTypeDiagonalTile

\* part_002 lines 98-100
isWalkableTypeEarlier(ct) ==
  ct = CollisionTypeWalkable \/ ct = CollisionTypeLowPriority

walkableType(b, ct) ==
  IF b = "part_001" THEN isWalkableType(ct) ELSE isWalkableTypeEarlier(ct)

\* NewGrid, part_001 lines 36-55 and part_002 lines 49-67: the walkable tiles
\* within the radius of a blocking tile become LowPriority.  The loop works in
\* place; it turns Walkable into LowPriority only and neither is blocking, so
\* the blocking tiles it meets are those of the matrix it started from.
lowPriorityRadius == 2

lowPriorityTiles(b, grid, teleport) ==
  [y \in DOMAIN grid |-> [x \in DOMAIN grid[y] |->
     IF /\ grid[y][x] = CollisionTypeWalkable
        /\ \E i \in -lowPriorityRadius..lowPriorityRadius,
              j \in -lowPriorityRadius..lowPriorityRadius :
             /\ ~(i = 0 /\ j = 0)
             /\ ~(y-i < 0 \/ y-i >= len(grid) \/ x-j < 0 \/ x-j >= len(grid[y-i]))
             /\ blocking(b, grid[y-i][x-j], teleport)
     THEN CollisionTypeLowPriority
     ELSE grid[y][x]]]

\* a dilation pass that leaves the matrix as it is
thickenNothing(b, grid, teleport, args) == grid

\* the Inifuss tree of part_002 lines 144-150 and 158-164: objects lists the
\* positions of the Inifuss trees among the objects, the first one counts
treeRange == 10
absInt(n) == IF n < 0 THEN -n ELSE n
nearTree(args, x, y) ==
  /\ args.objects # <<>>
  /\ absInt(x - (args.objects[1][1] - args.offsetX)) <= treeRange
  /\ absInt(y - (args.objects[1][2] - args.offsetY)) <= treeRange

\* the four neighbours of lines 142-152, those inside the matrix
orthogonalNeighbors(grid, x, y) ==
  {p \in {<<x+1, y>>, <<x-1, y>>, <<x, y+1>>, <<x, y-1>>} :
     /\ ~(p[2] < 0 \/ p[2] >= len(grid))
     /\ ~(len(grid[p[2]]) = 0 \/ p[1] < 0 \/ p[1] >= len(grid[p[2]]))}

\* thickenCollisions, part_001 lines 131-168 and part_002 lines 138-192: the
\* buffer is filled from the matrix as it is, then written back
thickenCollisions(b, grid, teleport, args) ==
  [y \in DOMAIN grid |-> [x \in DOMAIN grid[y] |->
     IF /\ IF b = "part_001" THEN baseWalkable(grid[y][x])
           ELSE grid[y][x] = CollisionTypeWalkable
        /\ \E p \in orthogonalNeighbors(grid, x, y) :
             IF b = "part_001" THEN isBlockingTile(grid[p[2]][p[1]], teleport)
             ELSE /\ grid[p[2]][p[1]] = CollisionTypeNonWalkable
                  /\ ~nearTree(args, p[1], p[2])
     THEN CollisionTypeThickened
     ELSE grid[y][x]]]

\* marks that take the whole block whenever one of the two cases holds
blockMarksWhole(grid, x, y) ==
  LET a == grid[y][x]
      bb == grid[y][x+1]
      c == grid[y+1][x]
      d == grid[y+1][x+1]
  IN  IF \/ baseWalkable(a) /\ baseWalkable(d)
            /\ bb = CollisionTypeThickened /\ c = CollisionTypeThickened
         \/ baseWalkable(bb) /\ baseWalkable(c)
            /\ a = CollisionTypeThickened /\ d = CollisionTypeThickened
      THEN {<<x, y>>, <<x+1, y>>, <<x, y+1>>, <<x+1, y+1>>}
      ELSE {}

\* marks of the first case only
blockMarksFirstCase(grid, x, y) ==
  LET a == grid[y][x]
      bb == grid[y][x+1]
      c == grid[y+1][x]
      d == grid[y+1][x+1]
  IN  IF baseWalkable(a) /\ baseWalkable(d)
         /\ bb = CollisionTypeThickened /\ c = CollisionTypeThickened
      THEN {<<x+1, y>>, <<x, y+1>>}
      ELSE {}

\* part_001 lines 192-209: the tiles the block at (x, y) marks in toDiagonal
blockMarks(grid, x, y) ==
  LET a == grid[y][x]
      bb == grid[y][x+1]
      c == grid[y+1][x]
      d == grid[y+1][x+1]
  IN  (IF baseWalkable(a) /\ baseWalkable(d)
          /\ bb = CollisionTypeThickened /\ c = CollisionTypeThickened
       THEN {<<x+1, y>>, <<x, y+1>>}
       ELSE {})
      \cup
      (IF baseWalkable(bb) /\ baseWalkable(c)
          /\ a = CollisionTypeThickened /\ d = CollisionTypeThickened
       THEN {<<x, y>>, <<x+1, y+1>>}
       ELSE {})

\* part_001 lines 182-211: toDiagonal, as the set of the tiles marked
toDiagonal(grid) ==
  UNION {blockMarks(grid, p[1], p[2]) :
           p \in {q \in (0..len(grid[0])-1) \X (0..len(grid)-1) :
                    /\ q[2] + 1 < len(grid)
                    /\ q[1] + 1 < (IF len(grid[q[2]+1]) < len(grid[q[2]])
                                   THEN len(grid[q[2]+1]) ELSE len(grid[q[2]]))}}

\* markDiagonalTiles, part_001 lines 170-220
markDiagonalTiles(grid) ==
  IF len(grid) = 0 THEN grid
  ELSE Bind(toDiagonal(grid), LAMBDA marked :
         [y \in DOMAIN grid |-> [x \in DOMAIN grid[y] |->
            IF <<x, y>> \in marked THEN CollisionTypeDiagonalTile ELSE grid[y][x]]])

\* grid[y][x] = v on the matrix of m; an index outside the matrix panics
store(m, x, y, v) ==
  IF m.panic THEN m
  ELSE IF y \in DOMAIN m.cells /\ x \in DOMAIN m.cells[y]
  THEN [m EXCEPT !.cells[y][x] = v]
  ELSE [m EXCEPT !.panic = TRUE]

\* a write without the two tests on the index
setWalkableUnchecked(m, x, y) == store(m, x, y, CollisionTypeWalkable)

\* part_001 lines 222-230, part_002 lines 194-202
setWalkable(m, x, y) ==
  IF y < 0 \/ y >= len(m.cells) THEN m
  ELSE IF x < 0 \/ x >= len(m.cells[y]) THEN m
  ELSE store(m, x, y, CollisionTypeWalkable)

\* part_001 lines 232-252, part_002 lines 204-224
hasWalkableNeighbor(b, grid, x, y) ==
  \E dx \in -1..1, dy \in -1..1 :
    /\ ~(dx = 0 /\ dy = 0)
    /\ ~(y+dy < 0 \/ y+dy >= len(grid))
    /\ ~(x+dx < 0 \/ x+dx >= len(grid[y+dy]))
    /\ walkableType(b, grid[y+dy][x+dx])

\* part_001 lines 265-269: the offsets of the box the drill reopens
drillBox(dx, dy) ==
  /\ dx \in -2..2
  /\ dy \in -2..2
  /\ ~(((dx < -1 \/ dx > 1) /\ (dy < -1 \/ dy > 1)) \/ (dx = 0 /\ dy = 0))

\* drillExit, part_001 lines 254-283 and part_002 lines 226-255
drillExit(b, m, x, y) ==
  Bind(setWalkable(m, x, y), LAMBDA m1 :
    IF m1.panic \/ hasWalkableNeighbor(b, m1.cells, x, y) THEN m1
    ELSE Bind(setWalkable(setWalkable(setWalkable(setWalkable(m1, x+1, y),
                                                  x-1, y), x, y+1), x, y-1),
           LAMBDA m2 :
             IF m2.panic THEN m2
             ELSE [m2 EXCEPT !.cells =
                     [ny \in DOMAIN m2.cells |-> [nx \in DOMAIN m2.cells[ny] |->
                        IF /\ drillBox(nx - x, ny - y)
                           /\ m2.cells[ny][nx] = CollisionTypeThickened
                        THEN CollisionTypeWalkable
                        ELSE m2.cells[ny][nx]]]]))

\* drillExits, part_001 lines 285-297 and part_002 lines 257-269
RECURSIVE drillExits(_, _, _, _, _)
drillExits(b, m, offsetX, offsetY, exits) ==
  IF exits = <<>> \/ m.panic THEN m
  ELSE LET relativeX == Head(exits)[1] - offsetX
           relativeY == Head(exits)[2] - offsetY
       IN  Bind(IF relativeY < 0 \/ relativeY >= len(m.cells) THEN m
                ELSE IF relativeX < 0 \/ relativeX >= len(m.cells[relativeY]) THEN m
                ELSE drillExit(b, m, relativeX, relativeY),
                LAMBDA next : drillExits(b, next, offsetX, offsetY, Tail(exits)))

gapSize == 3     \* part_001 line 304, part_002 line 276

\* the loops of part_001 lines 307-316 and 322-331 over one line of the matrix:
\* line[i] tells whether the tile at i is blocking, the result is spaces
RECURSIVE gapScan(_, _, _, _)
gapScan(line, i, last, spaces) ==
  IF ~(i <= last /\ spaces < gapSize) THEN spaces
  ELSE IF i < 0 \/ i >= len(line) THEN gapScan(line, i + 1, last, spaces)
  ELSE IF line[i] THEN gapScan(line, i + 1, last, spaces + 1)
  ELSE gapScan(line, i + 1, last, 0)

\* isGap, part_001 lines 299-333 and part_002 lines 271-305
isGap(b, grid, x, y, teleport) ==
  IF ~blocking(b, grid[y][x], teleport) THEN FALSE
  ELSE IF gapScan([i \in DOMAIN grid[y] |-> blocking(b, grid[y][i], teleport)],
                  x - gapSize - 1, x + gapSize + 1, 0) < gapSize
  THEN TRUE
  ELSE gapScan([j \in DOMAIN grid |-> blocking(b, grid[j][x], teleport)],
               y - gapSize - 1, y + gapSize + 1, 0) < gapSize

\* the inner loop of fillGaps from the tile (x, y) on, part_001 lines 338-343:
\* the matrix is written while it is scanned
RECURSIVE fillGapsRow(_, _, _, _, _)
fillGapsRow(b, grid, x, y, teleport) ==
  IF ~(x < len(grid[y])) THEN grid
  ELSE Bind(IF ~isGap(b, grid, x, y, teleport) THEN grid
            ELSE [grid EXCEPT ![y][x] = CollisionTypeThickened],
            LAMBDA next : fillGapsRow(b, next, x + 1, y, teleport))

\* the outer loop of fillGaps from the row y on, part_001 lines 336-344
RECURSIVE fillGapsFrom(_, _, _, _)
fillGapsFrom(b, grid, y, teleport) ==
  IF ~(y < len(grid)) THEN grid
  ELSE Bind(fillGapsRow(b, grid, 0, y, teleport),
            LAMBDA next : fillGapsFrom(b, next, y + 1, teleport))

\* fillGaps, part_001 lines 335-345 and part_002 lines 307-317
fillGaps(b, grid, teleport) == fillGapsFrom(b, grid, 0, teleport)

\* the *Grid of part_001 lines 27-33 and 68-74
GridOf(cells, offsetX, offsetY) ==
  [OffsetX |-> offsetX, OffsetY |-> offsetY, Width |-> len(cells[0]),
   Height |-> len(cells), CollisionGrid |-> cells]

\* the matrix NewGrid leaves: part_001 lines 36-60 (halo, fillGaps,
\* thickenCollisions, markDiagonalTiles, drillExits), part_002 lines 38-67
\* (thickenCollisions in act 1 and towns, fillGaps, drillExits, halo)
NewGridCells(b, cells, teleport, args) ==
  IF b = "part_001"
  THEN Bind(lowPriorityTiles(b, cells, teleport), LAMBDA g1 :
       Bind(fillGaps(b, g1, teleport), LAMBDA g2 :
       Bind(thickenCollisions(b, g2, teleport, args), LAMBDA g3 :
       Bind(markDiagonalTiles(g3), LAMBDA g4 :
         drillExits(b, [cells |-> g4, panic |-> FALSE],
                    args.offsetX, args.offsetY, args.exits)))))
  ELSE Bind(IF args.act1 THEN thickenCollisions(b, cells, teleport, args) ELSE cells,
         LAMBDA g1 :
       Bind(fillGaps(b, g1, teleport), LAMBDA g2 :
       Bind(drillExits(b, [cells |-> g2, panic |-> FALSE],
                       args.offsetX, args.offsetY, args.exits), LAMBDA m3 :
         [m3 EXCEPT !.cells = lowPriorityTiles(b, m3.cells, teleport)])))

\* a NewGridFromProcessed that runs the passes again
NewGridReprocessed(processedCollisionGrid, offsetX, offsetY) ==
  GridOf(NewGridCells("part_001", processedCollisionGrid, FALSE,
                      [NoGridArgs EXCEPT !.offsetX = offsetX, !.offsetY = offsetY]).cells,
         offsetX, offsetY)

\* NewGridFromProcessed, part_001 lines 67-75 and part_002 lines 75-83
NewGridFromProcessed(processedCollisionGrid, offsetX, offsetY) ==
  GridOf(processedCollisionGrid, offsetX, offsetY)

(***************************************************************************)
(* GridSpec: one call of a function of the grid builder on a collision     *)
(* matrix.  The matrices are small ones of every shape the passes tell     *)
(* apart: all 2x2 blocks, 3x3 matrices of walkable and thickened tiles,    *)
(* single rows and columns with up to three blocking tiles, 5x5 matrices   *)
(* of one class with one tile of another, and the 11x11 matrix with one    *)
(* blocking tile in the middle.                                            *)
(***************************************************************************)
Builders == {"part_001", "part_002"}

\* the matrices of the given width and height over a set of classes
Matrices(w, h, classes) == [0..h-1 -> [0..w-1 -> classes]]

\* the matrix of one class, and a matrix with one tile replaced
Uniform(w, h, class) == [y \in 0..h-1 |-> [x \in 0..w-1 |-> class]]
WithTile(grid, x, y, class) == [grid EXCEPT ![y][x] = class]

HaloMatrix == WithTile(Uniform(11, 11, CollisionTypeWalkable), 5, 5, CollisionTypeNonWalkable)

BlockingCount(line) == Cardinality({i \in DOMAIN line : line[i] = CollisionTypeNonWalkable})

RawMatrices ==
  Matrices(2, 2, {CollisionTypeWalkable, CollisionTypeLowPriority,
                  CollisionTypeThickened, CollisionTypeNonWalkable})
  \cup Matrices(3, 3, {CollisionTypeWalkable, CollisionTypeThickened})
  \cup {g \in Matrices(9, 1, {CollisionTypeWalkable, CollisionTypeNonWalkable}) :
          BlockingCount(g[0]) <= 3}
  \cup {[y \in 0..8 |-> [x \in {0} |-> g[0][y]]] :
          g \in {h \in Matrices(9, 1, {CollisionTypeWalkable, CollisionTypeNonWalkable}) :
                   BlockingCount(h[0]) <= 2}}
  \cup {Uniform(5, 5, base) :
          base \in {CollisionTypeWalkable, CollisionTypeNonWalkable, CollisionTypeThickened}}
  \cup {WithTile(Uniform(5, 5, base), p[1], p[2], class) :
          base \in {CollisionTypeWalkable, CollisionTypeNonWalkable, CollisionTypeThickened},
          p \in {<<0, 0>>, <<2, 2>>, <<3, 0>>},
          class \in CollisionType}
  \cup {HaloMatrix}

\* the offsets of a matrix in the world, and the exits handed to a call: the
\* corners and the middle of the matrix and two positions outside of it
GridOffsets == {<<0, 0>>, <<5, 3>>}
ExitPositions(grid, offset) ==
  {<<offset[1] + p[1], offset[2] + p[2]>> :
     p \in {<<0, 0>>, <<len(grid[0]) - 1, len(grid) - 1>>,
            <<len(grid[0]) \div 2, len(grid) \div 2>>,
            <<-1, 0>>, <<0, len(grid)>>}}
ExitLists(grid, offset, n) ==
  UNION {[1..k -> ExitPositions(grid, offset)] : k \in 0..n}

\* the Inifuss trees among the objects: none, or one to the upper left of the
\* matrix, so near that its range covers the first two columns and rows
ObjectLists(offset) == {<<>>, <<<<offset[1] - 9, offset[2] - 9>>>>}

GridInit ==
  /\ playerArea = "RogueEncampment"
  /\ availableWaypoints = {}
  /\ adjacentLevels = {}
  /\ mapOrder = "asc"
  /\ builder \in Builders
  /\ canTeleport \in (IF builder = "part_001" THEN BOOLEAN ELSE {FALSE})
  /\ gridRaw \in RawMatrices
  /\ gridCells = gridRaw
  /\ gridPass = "none"
  /\ gridPanic = FALSE
  /\ gridArgs = NoGridArgs
  /\ gridResult = NoGrid
  /\ RouteIdle
  /\ SearchIdle
  /\ WayIdle
  /\ MtaIdle
  /\ EntIdle
  /\ MoveIdle
  /\ SelIdle
  /\ OverlayIdle
  /\ PayloadIdle
  /\ NestIdle
  /\ PathIdle
  /\ InstanceIdle
  /\ SyncIdle

\* what a call leaves: the matrix, whether it panicked, its arguments, its result
GridReturn(pass, m, args, result) ==
  /\ gridPass' = pass
  /\ gridCells' = m.cells
  /\ gridPanic' = m.panic
  /\ gridArgs' = args
  /\ gridResult' = result
  /\ UNCHANGED <<builder, gridRaw>>
  /\ UNCHANGED <<snapVars, otherThanGrid>>

Memory(cells) == [cells |-> cells, panic |-> FALSE]

\* fillGaps(grid, canTeleport)
FillGaps ==
  /\ gridPass = "none"
  /\ GridReturn("fillGaps", Memory(fillGaps(builder, gridCells, canTeleport)),
                NoGridArgs, NoGrid)

\* thickenCollisions(grid, canTeleport), thickenCollisions(grid, objects, offsetX, offsetY)
ThickenCollisions(offset, objects) ==
  LET args == [NoGridArgs EXCEPT !.offsetX = offset[1], !.offsetY = offset[2],
                                 !.objects = objects]
  IN  /\ gridPass = "none"
      /\ GridReturn("thickenCollisions",
                    Memory(thickenCollisions(builder, gridCells, canTeleport, args)),
                    args, NoGrid)

\* markDiagonalTiles(grid)
MarkDiagonalTiles ==
  /\ gridPass = "none"
  /\ builder = "part_001"
  /\ GridReturn("markDiagonalTiles", Memory(markDiagonalTiles(gridCells)),
                NoGridArgs, NoGrid)

\* drillExits(grid, offsetX, offsetY, exits)
DrillExits(offset, exits) ==
  LET args == [NoGridArgs EXCEPT !.offsetX = offset[1], !.offsetY = offset[2],
                                 !.exits = exits]
  IN  /\ gridPass = "none"
      /\ GridReturn("drillExits",
                    drillExits(builder, Memory(gridCells), offset[1], offset[2], exits),
                    args, NoGrid)

\* NewGrid(rawCollisionGrid, offsetX, offsetY, canTeleport, exits),
\* NewGrid(rawCollisionGrid, offsetX, offsetY, exits, areaID, objects)
NewGrid(offset, exits, act1, objects) ==
  LET args == [offsetX |-> offset[1], offsetY |-> offset[2], exits |-> exits,
               act1 |-> act1, objects |-> objects]
  IN  /\ gridPass = "none"
      /\ \E m \in {NewGridCells(builder, gridCells, canTeleport, args)} :
           GridReturn("NewGrid", m, args, GridOf(m.cells, offset[1], offset[2]))

\* NewGridFromProcessed(processedCollisionGrid, offsetX, offsetY)
NewGridFromProcessedCall(offset) ==
  /\ gridPass = "none"
  /\ GridReturn("NewGridFromProcessed", Memory(gridCells),
                [NoGridArgs EXCEPT !.offsetX = offset[1], !.offsetY = offset[2]],
                NewGridFromProcessed(gridCells, offset[1], offset[2]))

GridNext ==
  \/ FillGaps
  \/ \E objects \in (IF builder = "part_001" THEN {<<>>} ELSE ObjectLists(<<5, 3>>)) :
       ThickenCollisions(IF builder = "part_001" THEN <<0, 0>> ELSE <<5, 3>>, objects)
  \/ MarkDiagonalTiles
  \/ \E exits \in ExitLists(gridCells, <<5, 3>>, 2) : DrillExits(<<5, 3>>, exits)
  \/ \E exits \in ExitLists(gridCells, <<5, 3>>, 1),
        act1 \in (IF builder = "part_001" THEN {FALSE} ELSE BOOLEAN),
        objects \in (IF builder = "part_001" THEN {<<>>} ELSE ObjectLists(<<5, 3>>)) :
       NewGrid(<<5, 3>>, exits, act1, IF act1 THEN objects ELSE <<>>)
  \/ \E offset \in GridOffsets : NewGridFromProcessedCall(offset)

GridSpec == GridInit /\ [][GridNext]_vars

(***************************************************************************)
(* The claims on the grid builder.                                         *)
(***************************************************************************)
\* the exits of the call that lie inside the matrix, relative to its offset
ExitsInside ==
  {p \in {<<gridArgs.exits[k][1] - gridArgs.offsetX, gridArgs.exits[k][2] - gridArgs.offsetY>> :
            k \in DOMAIN gridArgs.exits} :
     p[2] \in DOMAIN gridRaw /\ p[1] \in DOMAIN gridRaw[p[2]]}

\* the tiles of the matrix next to (x, y), diagonals included
EightNeighbors(x, y) ==
  {p \in ((x-1)..(x+1)) \X ((y-1)..(y+1)) :
     p # <<x, y>> /\ p[2] \in DOMAIN gridCells /\ p[1] \in DOMAIN gridCells[p[2]]}

RawTiles == {p \in (0..len(gridRaw[0])-1) \X (0..len(gridRaw)-1) : TRUE}

\* C16: markDiagonalTiles changes no tile but a Thickened one, and that one to
\* DiagonalTile: Walkable, LowPriority, NonWalkable, Object, Monster and
\* TeleportOver tiles keep their class.
C16_OnlyThickenedBecomesDiagonal ==
  gridPass = "markDiagonalTiles" =>
    \A p \in RawTiles :
      gridCells[p[2]][p[1]] # gridRaw[p[2]][p[1]] =>
        /\ gridRaw[p[2]][p[1]] = CollisionTypeThickened
        /\ gridCells[p[2]][p[1]] = CollisionTypeDiagonalTile

\* the pass changed a tile of a matrix that holds Walkable and LowPriority
\* tiles next to it
C16_Witness ==
  /\ gridPass = "markDiagonalTiles"
  /\ gridCells # gridRaw
  /\ \E p, q \in RawTiles :
       /\ gridRaw[p[2]][p[1]] = CollisionTypeWalkable
       /\ gridRaw[q[2]][q[1]] = CollisionTypeLowPriority

\* the 2x2 blocks of the matrix handed to the call, each as its two diagonal
\* pairs <<one, other>>, both ways round
DiagonalBlocks ==
  UNION {{<<{<<x, y>>, <<x+1, y+1>>}, {<<x+1, y>>, <<x, y+1>>}>>,
          <<{<<x+1, y>>, <<x, y+1>>}, {<<x, y>>, <<x+1, y+1>>}>>} :
           x \in 0..len(gridRaw[0])-2, y \in 0..len(gridRaw)-2}

\* the blocks with one pair base-walkable and the other pair Thickened
SqueezeBlocks ==
  {blk \in DiagonalBlocks :
     /\ \A p \in blk[1] : gridRaw[p[2]][p[1]] \in {CollisionTypeWalkable, CollisionTypeLowPriority}
     /\ \A p \in blk[2] : gridRaw[p[2]][p[1]] = CollisionTypeThickened}

\* C17: for every 2x2 block of the matrix as it is before markDiagonalTiles, if
\* one diagonal pair is Walkable or LowPriority and the other pair is Thickened,
\* the pass turns that Thickened pair into DiagonalTile and leaves the other
\* pair; a Thickened tile that is in no such block stays Thickened.
C17_SqueezePairsBecomeDiagonal ==
  gridPass = "markDiagonalTiles" =>
    /\ \A blk \in SqueezeBlocks :
         /\ \A p \in blk[2] : gridCells[p[2]][p[1]] = CollisionTypeDiagonalTile
         /\ \A p \in blk[1] : gridCells[p[2]][p[1]] = gridRaw[p[2]][p[1]]
    /\ \A p \in RawTiles :
         /\ gridRaw[p[2]][p[1]] = CollisionTypeThickened
         /\ \A blk \in SqueezeBlocks : p \notin blk[2]
         => gridCells[p[2]][p[1]] = CollisionTypeThickened

\* [[W, T], [T, W]] became [[W, D], [D, W]]
C17_Witness ==
  /\ gridPass = "markDiagonalTiles"
  /\ len(gridRaw) = 2
  /\ \A x, y \in 0..1 :
       /\ gridRaw[y][x] = (IF x = y THEN CollisionTypeWalkable ELSE CollisionTypeThickened)
       /\ gridCells[y][x] = (IF x = y THEN CollisionTypeWalkable ELSE CollisionTypeDiagonalTile)

\* in a 3x3 matrix a Thickened tile outside every such block stayed Thickened
\* beside a pair that was converted
C17_WitnessThickenedStays ==
  /\ gridPass = "markDiagonalTiles"
  /\ len(gridRaw) = 3
  /\ SqueezeBlocks # {}
  /\ \E p \in RawTiles :
       /\ gridRaw[p[2]][p[1]] = CollisionTypeThickened
       /\ gridCells[p[2]][p[1]] = CollisionTypeThickened

\* the tile of the matrix handed to the call at (x, y) is blocking
RawBlocking(x, y) == blocking(builder, gridRaw[y][x], canTeleport)

\* the row, or the column, of the tile (x, y) holds gapSize blocking tiles in a
\* row within gapSize+1 tiles of it; positions outside the matrix count for
\* nothing
RowRun(x, y) ==
  \E i \in (x - gapSize - 1)..(x + 2) :
    \A k \in i..(i + gapSize - 1) : k \in DOMAIN gridRaw[y] /\ RawBlocking(k, y)
ColumnRun(x, y) ==
  \E j \in (y - gapSize - 1)..(y + 2) :
    \A k \in j..(j + gapSize - 1) : k \in DOMAIN gridRaw /\ RawBlocking(x, k)

\* C18 as the specification states it: fillGaps turns a tile into Thickened
\* exactly when the tile is blocking and neither its row nor its column holds
\* a run of three blocking tiles within the window; a blocking tile with such a
\* run on one of the two lines is left as it is.
C18_GapNeedsBothLinesShort ==
  gridPass = "fillGaps" =>
    \A p \in RawTiles :
      IF RawBlocking(p[1], p[2]) /\ ~RowRun(p[1], p[2]) /\ ~ColumnRun(p[1], p[2])
      THEN gridCells[p[2]][p[1]] = CollisionTypeThickened
      ELSE gridCells[p[2]][p[1]] = gridRaw[p[2]][p[1]]

\* what fillGaps does: a blocking tile becomes Thickened when its row or its
\* column is short of such a run, the other tiles are left as they are
C18_GapWhenOneLineIsShort ==
  gridPass = "fillGaps" =>
    \A p \in RawTiles :
      IF RawBlocking(p[1], p[2]) /\ ~(RowRun(p[1], p[2]) /\ ColumnRun(p[1], p[2]))
      THEN gridCells[p[2]][p[1]] = CollisionTypeThickened
      ELSE gridCells[p[2]][p[1]] = gridRaw[p[2]][p[1]]

\* the row [W W B W W W B W W] came out with Thickened at 2 and 6 only
C18_WorkedExample ==
  /\ gridPass = "fillGaps"
  /\ len(gridRaw) = 1
  /\ len(gridRaw[0]) = 9
  /\ \A x \in 0..8 :
       /\ gridRaw[0][x] = (IF x \in {2, 6} THEN CollisionTypeNonWalkable ELSE CollisionTypeWalkable)
       /\ gridCells[0][x] = (IF x \in {2, 6} THEN CollisionTypeThickened ELSE CollisionTypeWalkable)

\* the Chebyshev distance of the tile <<x, y>> from the tile (5, 5)
FromMiddle(p) ==
  LET dx == absInt(p[1] - 5)
      dy == absInt(p[2] - 5)
  IN  IF dx > dy THEN dx ELSE dy

\* NewGrid was called on the 11x11 matrix that is Walkable but for the
\* NonWalkable tile at (5, 5)
HaloBuilt == gridPass = "NewGrid" /\ gridRaw = HaloMatrix

\* C19 as the specification states it: building a grid from that matrix turns
\* the tiles within distance 2 of (5, 5) into LowPriority and changes no other
\* tile.
C19_HaloOnly ==
  HaloBuilt =>
    \A p \in RawTiles :
      gridCells[p[2]][p[1]] =
        (IF FromMiddle(p) = 0 THEN CollisionTypeNonWalkable
         ELSE IF FromMiddle(p) <= lowPriorityRadius THEN CollisionTypeLowPriority
         ELSE CollisionTypeWalkable)

\* the tile <<x, y>> is (5, 5) or one of its four orthogonal neighbours
InCross(p) == absInt(p[1] - 5) + absInt(p[2] - 5) <= 1

\* the matrix the claim describes: the halo around (5, 5) and nothing else
HaloOnlyMatrix ==
  [y \in 0..10 |-> [x \in 0..10 |->
     IF FromMiddle(<<x, y>>) = 0 THEN CollisionTypeNonWalkable
     ELSE IF FromMiddle(<<x, y>>) <= lowPriorityRadius THEN CollisionTypeLowPriority
     ELSE CollisionTypeWalkable]]

\* C19, amended: on that matrix the low-priority loop of NewGrid alone yields
\* the halo the claim describes; the grid NewGrid returns (no exits) differs
\* from it through the other passes.  In part_001 the tile (5, 5) is Thickened
\* by fillGaps and its four orthogonal neighbours by thickenCollisions, and the
\* other tiles within distance 2 are LowPriority.  In part_002 outside act 1
\* the tile (5, 5) is Thickened and the halo is as claimed; in act 1 and towns
\* (5, 5) stays NonWalkable, its four orthogonal neighbours are Thickened and
\* the Walkable tiles within distance 2 of any of these five are LowPriority.
\* Every other tile is still Walkable.
C19_HaloAroundThickenedTiles ==
  HaloBuilt /\ gridArgs.exits = <<>> =>
    /\ lowPriorityTiles(builder, gridRaw, canTeleport) = HaloOnlyMatrix
    /\ \A p \in RawTiles :
         gridCells[p[2]][p[1]] =
           (CASE builder = "part_001" ->
                   IF InCross(p) THEN CollisionTypeThickened
                   ELSE IF FromMiddle(p) <= lowPriorityRadius THEN CollisionTypeLowPriority
                   ELSE CollisionTypeWalkable
              [] builder = "part_002" /\ ~gridArgs.act1 ->
                   IF FromMiddle(p) = 0 THEN CollisionTypeThickened
                   ELSE IF FromMiddle(p) <= lowPriorityRadius THEN CollisionTypeLowPriority
                   ELSE CollisionTypeWalkable
              [] builder = "part_002" /\ gridArgs.act1 ->
                   IF FromMiddle(p) = 0 THEN CollisionTypeNonWalkable
                   ELSE IF InCross(p) THEN CollisionTypeThickened
                   ELSE IF \E q \in RawTiles :
                             /\ InCross(q)
                             /\ absInt(p[1] - q[1]) <= lowPriorityRadius
                             /\ absInt(p[2] - q[2]) <= lowPriorityRadius
                        THEN CollisionTypeLowPriority
                   ELSE CollisionTypeWalkable)

\* NewGrid of part_001 has built the grid of that matrix, without exits
C19_Witness ==
  /\ HaloBuilt
  /\ gridArgs.exits = <<>>
  /\ builder = "part_001"
  /\ gridResult.Width = 11
  /\ gridResult.CollisionGrid[5][4] = CollisionTypeThickened
  /\ gridResult.CollisionGrid[4][4] = CollisionTypeLowPriority

\* C20: NewGridFromProcessed(g.Cells, g.OffsetX, g.OffsetY) returns a grid with
\* the offsets, the width, the height and, tile for tile, the collision types
\* of g, and leaves the matrix as it is: no pass of the builder is applied.
C20_FromProcessedIsTheSameGrid ==
  gridPass = "NewGridFromProcessed" =>
    /\ gridResult.OffsetX = gridArgs.offsetX
    /\ gridResult.OffsetY = gridArgs.offsetY
    /\ gridResult.Height = Cardinality(DOMAIN gridRaw)
    /\ gridResult.Width = Cardinality(DOMAIN gridRaw[0])
    /\ DOMAIN gridResult.CollisionGrid = DOMAIN gridRaw
    /\ \A y \in DOMAIN gridRaw :
         /\ DOMAIN gridResult.CollisionGrid[y] = DOMAIN gridRaw[y]
         /\ \A x \in DOMAIN gridRaw[y] :
              /\ gridResult.CollisionGrid[y][x] = gridRaw[y][x]
              /\ gridCells[y][x] = gridRaw[y][x]

\* a grid was made, at an offset, from a matrix that every pass of NewGrid
\* would have changed
C20_Witness ==
  /\ gridPass = "NewGridFromProcessed"
  /\ gridArgs.offsetX = 5
  /\ gridArgs.offsetY = 3
  /\ gridRaw = HaloMatrix
  /\ gridResult.CollisionGrid = HaloMatrix

\* the blocking test of the variant b for a character that can or cannot
\* teleport
isBlocking(b, tile, teleport) ==
  IF b = "part_001" THEN isBlockingTile(tile, teleport)
  ELSE isBlockingTileEarlier(tile, teleport)

\* the tiles of the returned grid within Chebyshev distance 2 of p, p excluded
WithinHalo(p) ==
  {q \in RawTiles : q # p /\ absInt(q[1] - p[1]) <= lowPriorityRadius
                          /\ absInt(q[2] - p[2]) <= lowPriorityRadius}

WalkableNearBlocking(cells, b, teleport) ==
  {p \in RawTiles :
     /\ cells[p[2]][p[1]] = CollisionTypeWalkable
     /\ \E q \in WithinHalo(p) : isBlocking(b, cells[q[2]][q[1]], teleport)}

\* C28: the halo is the last pass of NewGrid, so in the grid it returns no
\* Walkable tile lies within Chebyshev distance 2 of a blocking tile.
C28_NoWalkableNearBlocking ==
  (gridPass = "NewGrid" /\ ~gridPanic) =>
    WalkableNearBlocking(gridResult.CollisionGrid, builder, canTeleport) = {}

\* the variant whose halo is the last pass (part_002) returns such a grid
C28_HaloLastLeavesNoWalkableNearBlocking ==
  (gridPass = "NewGrid" /\ ~gridPanic /\ builder = "part_002") =>
    /\ WalkableNearBlocking(gridResult.CollisionGrid, builder, canTeleport) = {}
    /\ WalkableNearBlocking(gridResult.CollisionGrid, builder, FALSE) = {}

\* part_001 on the 11x11 matrix with one blocking tile: (2,5) is Walkable and
\* two tiles from the Thickened tile (4,5)
C28_WalkableLeftNearThickened ==
  /\ gridPass = "NewGrid"
  /\ builder = "part_001"
  /\ gridRaw = HaloMatrix
  /\ gridResult.CollisionGrid[5][2] = CollisionTypeWalkable
  /\ gridResult.CollisionGrid[5][4] = CollisionTypeThickened

\* C29: NonWalkable, Object and Monster are blocking whatever canTeleport is;
\* TeleportOver and Thickened are blocking exactly when canTeleport is false;
\* Walkable, LowPriority and DiagonalTile are never blocking.  Stated for the
\* tiles of the matrix in memory and the builder that made it.
BlockingTable(tile, teleport) ==
  CASE tile \in {CollisionTypeNonWalkable, CollisionTypeObject, CollisionTypeMonster} -> TRUE
    [] tile \in {CollisionTypeTeleportOver, CollisionTypeThickened} -> ~teleport
    [] tile \in {CollisionTypeWalkable, CollisionTypeLowPriority,
                 CollisionTypeDiagonalTile} -> FALSE

C29_BlockingTruthTable ==
  \A p \in RawTiles, teleport \in BOOLEAN :
    /\ isBlocking(builder, gridCells[p[2]][p[1]], teleport)
         = BlockingTable(gridCells[p[2]][p[1]], teleport)
    /\ isBlocking(builder, gridRaw[p[2]][p[1]], teleport)
         = BlockingTable(gridRaw[p[2]][p[1]], teleport)

\* where the two variants agree with the table: everywhere but Thickened for
\* a character that teleports (part_001), Object and Monster (part_002)
C29_TableExceptThickenedObjectMonster ==
  \A tile \in CollisionType, teleport \in BOOLEAN :
    /\ (tile # CollisionTypeThickened \/ ~teleport) =>
         isBlockingTile(tile, teleport) = BlockingTable(tile, teleport)
    /\ isBlockingTile(CollisionTypeThickened, TRUE)
    /\ tile \notin {CollisionTypeObject, CollisionTypeMonster} =>
         isBlockingTileEarlier(tile, teleport) = BlockingTable(tile, teleport)
    /\ ~isBlockingTileEarlier(CollisionTypeObject, teleport)
    /\ ~isBlockingTileEarlier(CollisionTypeMonster, teleport)

(***************************************************************************)
(* OverlaySpec: Start, Stop and Toggle of one DebugOverlay called from     *)
(* several goroutines, and the goroutine of each window with its           *)
(* windowClosed callback, one atomic operation or critical section of      *)
(* po.mu at a time.  server.start and the logging touch nothing shared     *)
(* and are part of the step that follows them.  A window leaves the screen *)
(* when it is terminated or when the user closes it; view.Run returns once *)
(* the window has left the screen.                                         *)
(***************************************************************************)
MaxOverlayCalls == 3      \* calls explored, over all calling goroutines

OverlayCallers == {"g1", "g2"}
OverlayWindows == 1..MaxOverlayCalls

NoLocals == [server |-> NoServer, window |-> NoWindow]

OverlayInit ==
  /\ playerArea = "RogueEncampment"
  /\ availableWaypoints = {}
  /\ adjacentLevels = {}
  /\ canTeleport = FALSE
  /\ mapOrder = "asc"
  /\ running = FALSE
  /\ poServer = NoServer
  /\ poWindow = NoWindow
  /\ serversMade = 0
  /\ serversAlive = {}
  /\ windowsMade = 0
  /\ windowsOpen = {}
  /\ ovPc = [g \in OverlayCallers |-> "idle"]
  /\ ovLocal = [g \in OverlayCallers |-> NoLocals]
  /\ ovCalls = 0
  /\ winPc = [w \in OverlayWindows |-> "none"]
  /\ winLocal = [w \in OverlayWindows |-> NoServer]
  /\ RouteIdle
  /\ SearchIdle
  /\ WayIdle
  /\ MtaIdle
  /\ EntIdle
  /\ MoveIdle
  /\ SelIdle
  /\ GridIdle
  /\ InstanceIdle
  /\ SyncIdle
  /\ PayloadIdle
  /\ NestIdle
  /\ PathIdle

\* the goroutine g goes on at pc with the locals l
OvGo(g, pc, l) ==
  /\ ovPc' = [ovPc EXCEPT ![g] = pc]
  /\ ovLocal' = [ovLocal EXCEPT ![g] = l]

OvFrame == UNCHANGED <<snapVars, otherThanOverlay>>

\* a goroutine calls Start, Stop or Toggle
OverlayCall(g, call) ==
  /\ ovPc[g] = "idle"
  /\ ovCalls < MaxOverlayCalls
  /\ ovCalls' = ovCalls + 1
  /\ OvGo(g, call, NoLocals)
  /\ UNCHANGED <<running, poServer, poWindow, serversMade, serversAlive,
                 windowsMade, windowsOpen, winPc, winLocal>>
  /\ OvFrame

\* lines 237-243: Toggle loads the flag, then calls Stop or Start
ToggleLoad(g) ==
  /\ ovPc[g] = "Toggle"
  /\ OvGo(g, IF running THEN "Stop" ELSE "Start", NoLocals)
  /\ UNCHANGED <<running, poServer, poWindow, serversMade, serversAlive,
                 windowsMade, windowsOpen, ovCalls, winPc, winLocal>>
  /\ OvFrame

\* line 253: po.running.CompareAndSwap(false, true)
StartSwap(g) ==
  /\ ovPc[g] = "Start"
  /\ IF running
     THEN OvGo(g, "idle", NoLocals) /\ UNCHANGED running
     ELSE OvGo(g, "Start.newOverlayServer", NoLocals) /\ running' = TRUE
  /\ UNCHANGED <<poServer, poWindow, serversMade, serversAlive,
                 windowsMade, windowsOpen, ovCalls, winPc, winLocal>>
  /\ OvFrame

\* lines 257-261: newOverlayServer listens, or fails and the flag is stored
StartNewServer(g, failed) ==
  /\ ovPc[g] = "Start.newOverlayServer"
  /\ IF failed
     THEN /\ running' = FALSE
          /\ OvGo(g, "idle", NoLocals)
          /\ UNCHANGED <<serversMade, serversAlive>>
     ELSE /\ serversMade' = serversMade + 1
          /\ serversAlive' = serversAlive \cup {serversMade + 1}
          /\ OvGo(g, "Start.server", [ovLocal[g] EXCEPT !.server = serversMade + 1])
          /\ UNCHANGED running
  /\ UNCHANGED <<poServer, poWindow, windowsMade, windowsOpen, ovCalls, winPc, winLocal>>
  /\ OvFrame

\* lines 263-265: po.server = server under po.mu
StartSetServer(g) ==
  /\ ovPc[g] = "Start.server"
  /\ poServer' = ovLocal[g].server
  /\ OvGo(g, "Start.newOverlayWindow", ovLocal[g])
  /\ UNCHANGED <<running, poWindow, serversMade, serversAlive,
                 windowsMade, windowsOpen, ovCalls, winPc, winLocal>>
  /\ OvFrame

\* lines 267-277: server.start, then newOverlayWindow opens a window or fails
StartNewWindow(g, failed) ==
  /\ ovPc[g] = "Start.newOverlayWindow"
  /\ IF failed
     THEN /\ OvGo(g, "Start.stopServer", ovLocal[g])
          /\ UNCHANGED <<windowsMade, windowsOpen, winPc>>
     ELSE /\ windowsMade' = windowsMade + 1
          /\ windowsOpen' = windowsOpen \cup {windowsMade + 1}
          /\ winPc' = [winPc EXCEPT ![windowsMade + 1] = "created"]
          /\ OvGo(g, "Start.setWindow", [ovLocal[g] EXCEPT !.window = windowsMade + 1])
  /\ UNCHANGED <<running, poServer, poWindow, serversMade, serversAlive, ovCalls, winLocal>>
  /\ OvFrame

\* lines 320-323: the critical section of stopServer
StopServerTake(g, from, to) ==
  /\ ovPc[g] = from
  /\ poServer' = NoServer
  /\ OvGo(g, to, [ovLocal[g] EXCEPT !.server = poServer])
  /\ UNCHANGED <<running, poWindow, serversMade, serversAlive,
                 windowsMade, windowsOpen, ovCalls, winPc, winLocal>>
  /\ OvFrame

\* lines 325-327: server.stop on the server taken, if any
StopServerStop(g, from, to) ==
  /\ ovPc[g] = from
  /\ serversAlive' = serversAlive \ {ovLocal[g].server}
  /\ OvGo(g, to, ovLocal[g])
  /\ UNCHANGED <<running, poServer, poWindow, serversMade,
                 windowsMade, windowsOpen, ovCalls, winPc, winLocal>>
  /\ OvFrame

\* line 275: po.running.Store(false) after the window failed
StartFailStore(g) ==
  /\ ovPc[g] = "Start.Store"
  /\ running' = FALSE
  /\ OvGo(g, "idle", NoLocals)
  /\ UNCHANGED <<poServer, poWindow, serversMade, serversAlive,
                 windowsMade, windowsOpen, ovCalls, winPc, winLocal>>
  /\ OvFrame

\* lines 279 and 296-300: setWindow
StartSetWindow(g) ==
  /\ ovPc[g] = "Start.setWindow"
  /\ poWindow' = ovLocal[g].window
  /\ OvGo(g, "Start.run", ovLocal[g])
  /\ UNCHANGED <<running, poServer, serversMade, serversAlive,
                 windowsMade, windowsOpen, ovCalls, winPc, winLocal>>
  /\ OvFrame

\* lines 280-283 and 150-165: window.run starts the goroutine of the window
StartRun(g) ==
  /\ ovPc[g] = "Start.run"
  /\ winPc' = [winPc EXCEPT ![ovLocal[g].window] = "Run"]
  /\ OvGo(g, "idle", NoLocals)
  /\ UNCHANGED <<running, poServer, poWindow, serversMade, serversAlive,
                 windowsMade, windowsOpen, ovCalls, winLocal>>
  /\ OvFrame

\* line 287: po.running.CompareAndSwap(true, false)
StopSwap(g) ==
  /\ ovPc[g] = "Stop"
  /\ IF running
     THEN OvGo(g, "Stop.stopServer", NoLocals) /\ running' = FALSE
     ELSE OvGo(g, "idle", NoLocals) /\ UNCHANGED running
  /\ UNCHANGED <<poServer, poWindow, serversMade, serversAlive,
                 windowsMade, windowsOpen, ovCalls, winPc, winLocal>>
  /\ OvFrame

\* lines 303-306: the critical section of stopWindow
StopWindowTake(g) ==
  /\ ovPc[g] = "Stop.stopWindow"
  /\ poWindow' = NoWindow
  /\ OvGo(g, "Stop.close", [ovLocal[g] EXCEPT !.window = poWindow])
  /\ UNCHANGED <<running, poServer, serversMade, serversAlive,
                 windowsMade, windowsOpen, ovCalls, winPc, winLocal>>
  /\ OvFrame

\* lines 308-310 and 167-172: w.close terminates the window taken, if any
StopWindowClose(g) ==
  /\ ovPc[g] = "Stop.close"
  /\ windowsOpen' = windowsOpen \ {ovLocal[g].window}
  /\ OvGo(g, "idle", NoLocals)
  /\ UNCHANGED <<running, poServer, poWindow, serversMade, serversAlive,
                 windowsMade, ovCalls, winPc, winLocal>>
  /\ OvFrame

\* the user closes a window that is on the screen
UserClosesWindow(w) ==
  /\ winPc[w] = "Run"
  /\ w \in windowsOpen
  /\ windowsOpen' = windowsOpen \ {w}
  /\ UNCHANGED <<running, poServer, poWindow, serversMade, serversAlive,
                 windowsMade, ovPc, ovLocal, ovCalls, winPc, winLocal>>
  /\ OvFrame

\* lines 160-163 and 313-317: view.Run returns and windowClosed swaps the flag
WindowClosed(w) ==
  /\ winPc[w] = "Run"
  /\ w \notin windowsOpen
  /\ IF running
     THEN running' = FALSE /\ winPc' = [winPc EXCEPT ![w] = "stopServer"]
     ELSE UNCHANGED running /\ winPc' = [winPc EXCEPT ![w] = "Destroy"]
  /\ UNCHANGED <<poServer, poWindow, serversMade, serversAlive,
                 windowsMade, windowsOpen, ovPc, ovLocal, ovCalls, winLocal>>
  /\ OvFrame

\* lines 315 and 320-323: the critical section of stopServer in the callback
WindowClosedTake(w) ==
  /\ winPc[w] = "stopServer"
  /\ poServer' = NoServer
  /\ winLocal' = [winLocal EXCEPT ![w] = poServer]
  /\ winPc' = [winPc EXCEPT ![w] = "stop"]
  /\ UNCHANGED <<running, poWindow, serversMade, serversAlive,
                 windowsMade, windowsOpen, ovPc, ovLocal, ovCalls>>
  /\ OvFrame

\* lines 325-327 and 156-158: server.stop in the callback, then Destroy
WindowClosedStop(w) ==
  /\ winPc[w] = "stop"
  /\ serversAlive' = serversAlive \ {winLocal[w]}
  /\ winLocal' = [winLocal EXCEPT ![w] = NoServer]
  /\ winPc' = [winPc EXCEPT ![w] = "Destroy"]
  /\ UNCHANGED <<running, poServer, poWindow, serversMade,
                 windowsMade, windowsOpen, ovPc, ovLocal, ovCalls>>
  /\ OvFrame

OverlayNext ==
  \/ \E g \in OverlayCallers, call \in {"Start", "Stop", "Toggle"} : OverlayCall(g, call)
  \/ \E g \in OverlayCallers : ToggleLoad(g)
  \/ \E g \in OverlayCallers : StartSwap(g)
  \/ \E g \in OverlayCallers, failed \in BOOLEAN : StartNewServer(g, failed)
  \/ \E g \in OverlayCallers : StartSetServer(g)
  \/ \E g \in OverlayCallers, failed \in BOOLEAN : StartNewWindow(g, failed)
  \/ \E g \in OverlayCallers : StopServerTake(g, "Start.stopServer", "Start.stop")
  \/ \E g \in OverlayCallers : StopServerStop(g, "Start.stop", "Start.Store")
  \/ \E g \in OverlayCallers : StartFailStore(g)
  \/ \E g \in OverlayCallers : StartSetWindow(g)
  \/ \E g \in OverlayCallers : StartRun(g)
  \/ \E g \in OverlayCallers : StopSwap(g)
  \/ \E g \in OverlayCallers : StopServerTake(g, "Stop.stopServer", "Stop.stop")
  \/ \E g \in OverlayCallers : StopServerStop(g, "Stop.stop", "Stop.stopWindow")
  \/ \E g \in OverlayCallers : StopWindowTake(g)
  \/ \E g \in OverlayCallers : StopWindowClose(g)
  \/ \E w \in OverlayWindows : UserClosesWindow(w)
  \/ \E w \in OverlayWindows : WindowClosed(w)
  \/ \E w \in OverlayWindows : WindowClosedTake(w)
  \/ \E w \in OverlayWindows : WindowClosedStop(w)

OverlaySpec == OverlayInit /\ [][OverlayNext]_vars

\* every call has returned and no callback is under way
OverlayQuiet ==
  /\ \A g \in OverlayCallers : ovPc[g] = "idle"
  /\ \A w \in OverlayWindows : winPc[w] \in {"none", "Run", "Destroy"}
  /\ \A w \in OverlayWindows : winPc[w] = "Run" => w \in windowsOpen

\* C21: under every interleaving of Start, Stop, Toggle and the window-closed
\* callbacks on one DebugOverlay at most one overlay server is alive at any
\* time, and whenever all calls have returned with the running flag false no
\* server is alive and no window is open.
C21_OneServerAndNoneLeftBehind ==
  /\ Cardinality(serversAlive) <= 1
  /\ (OverlayQuiet /\ ~running) => (serversAlive = {} /\ windowsOpen = {})

\* the first half of C21 alone, and the second half alone
C21_AtMostOneServer == Cardinality(serversAlive) <= 1
C21_NothingLeftBehind ==
  (OverlayQuiet /\ ~running) => (serversAlive = {} /\ windowsOpen = {})

(***************************************************************************)
(* InstanceSpec: Instance called from several goroutines, one operation on *)
(* the sync.Map at a time.                                                 *)
(***************************************************************************)
MaxInstanceCalls == 3     \* calls explored, over all calling goroutines

InstanceCallers == {"g1", "g2"}
ContextKeys == {"ctx1", "ctx2"}

InstanceInit ==
  /\ playerArea = "RogueEncampment"
  /\ availableWaypoints = {}
  /\ adjacentLevels = {}
  /\ canTeleport = FALSE
  /\ mapOrder = "asc"
  /\ overlayInstances = [k \in ContextKeys |-> NoOverlay]
  /\ instPc = [g \in InstanceCallers |-> "idle"]
  /\ instLocal = [g \in InstanceCallers |-> [key |-> NoContext, po |-> NoOverlay]]
  /\ instCalls = 0
  /\ instMade = 0
  /\ instReturned = {}
  /\ RouteIdle
  /\ SearchIdle
  /\ WayIdle
  /\ MtaIdle
  /\ EntIdle
  /\ MoveIdle
  /\ SelIdle
  /\ GridIdle
  /\ OverlayIdle
  /\ PayloadIdle
  /\ NestIdle
  /\ PathIdle
  /\ SyncIdle

InstFrame == UNCHANGED <<snapVars, otherThanInstance>>

\* lines 176-181: Instance(status); a nil status or context returns nil
InstanceCall(g, key) ==
  /\ instPc[g] = "idle"
  /\ instCalls < MaxInstanceCalls
  /\ instCalls' = instCalls + 1
  /\ IF key = NoContext
     THEN /\ instReturned' = instReturned \cup {<<key, NoOverlay>>}
          /\ UNCHANGED <<instPc, instLocal>>
     ELSE /\ instPc' = [instPc EXCEPT ![g] = "Load"]
          /\ instLocal' = [instLocal EXCEPT ![g] = [key |-> key, po |-> NoOverlay]]
          /\ UNCHANGED instReturned
  /\ UNCHANGED <<overlayInstances, instMade>>
  /\ InstFrame

\* lines 182-186: overlayInstances.Load(key); a hit is updated and returned
InstanceLoad(g) ==
  /\ instPc[g] = "Load"
  /\ IF overlayInstances[instLocal[g].key] # NoOverlay
     THEN /\ instReturned' =
               instReturned \cup {<<instLocal[g].key, overlayInstances[instLocal[g].key]>>}
          /\ instPc' = [instPc EXCEPT ![g] = "idle"]
     ELSE /\ instPc' = [instPc EXCEPT ![g] = "NewDebugOverlay"]
          /\ UNCHANGED instReturned
  /\ UNCHANGED <<overlayInstances, instLocal, instCalls, instMade>>
  /\ InstFrame

\* line 188: po := NewDebugOverlay(status)
InstanceNew(g) ==
  /\ instPc[g] = "NewDebugOverlay"
  /\ instMade' = instMade + 1
  /\ instLocal' = [instLocal EXCEPT ![g].po = instMade + 1]
  /\ instPc' = [instPc EXCEPT ![g] = "Store"]
  /\ UNCHANGED <<overlayInstances, instCalls, instReturned>>
  /\ InstFrame

\* lines 189-190: overlayInstances.Store(key, po); return po
InstanceStore(g) ==
  /\ instPc[g] = "Store"
  /\ overlayInstances' = [overlayInstances EXCEPT ![instLocal[g].key] = instLocal[g].po]
  /\ instReturned' = instReturned \cup {<<instLocal[g].key, instLocal[g].po>>}
  /\ instPc' = [instPc EXCEPT ![g] = "idle"]
  /\ UNCHANGED <<instLocal, instCalls, instMade>>
  /\ InstFrame

InstanceNext ==
  \/ \E g \in InstanceCallers, key \in ContextKeys \cup {NoContext} : InstanceCall(g, key)
  \/ \E g \in InstanceCallers : InstanceLoad(g)
  \/ \E g \in InstanceCallers : InstanceNew(g)
  \/ \E g \in InstanceCallers : InstanceStore(g)

InstanceSpec == InstanceInit /\ [][InstanceNext]_vars

\* C22: for a non-nil context key every call of Instance returns the same
\* DebugOverlay, also when calls for the key run concurrently: no interleaving
\* creates two overlays for one key.
C22_OneOverlayPerKey ==
  \A k \in ContextKeys :
    Cardinality({r \in instReturned : r[1] = k}) <= 1

\* what holds: calls for a key that do not overlap the first call for it
\* return the overlay that is in the map
C22_SequentialCallsAgree ==
  \A k \in ContextKeys :
    (\A g \in InstanceCallers : instPc[g] = "idle") =>
      (overlayInstances[k] # NoOverlay => <<k, overlayInstances[k]>> \in instReturned)

\* ---------------------------------------------------------------------------
\* The overlay payload: collectData, collectTiles, collectPath
\* (src/unnamed/part_000).  A snapshot holds the player's position, the area
\* name, the objects, the enemies, the area grid and the last path; the grid's
\* collision matrix is given by the type of its even rows and of its odd rows.
\* The payload keeps the number of its tiles instead of the tiles.
\* ---------------------------------------------------------------------------

overlayRange == 120
maxOverlayPoints == 80
tilesCapacity == 5000

withinRange(dx, dy) == absInt(dx) <= overlayRange /\ absInt(dy) <= overlayRange

maxInt(a, b) == IF a > b THEN a ELSE b
minInt(a, b) == IF a < b THEN a ELSE b

\* the cell collectTiles reads at grid coordinates (gridX, gridY)
CellAt(grid, gridX, gridY) == IF gridY % 2 = 0 THEN grid.evenRows ELSE grid.oddRows

\* the cases of collectTiles' switch: every type but Monster is drawn
DrawnTypes ==
  {CollisionTypeWalkable, CollisionTypeLowPriority, CollisionTypeNonWalkable,
   CollisionTypeTeleportOver, CollisionTypeObject, CollisionTypeThickened,
   CollisionTypeDiagonalTile}

\* len(collectTiles(dataSnapshot, player)): the cells of the grid within
\* overlayRange of the player whose type is drawn; nothing stops the append
collectTiles(snapshot, player) ==
  LET grid == snapshot.grid
      startX == maxInt(player[1] - overlayRange, grid.OffsetX)
      endX == minInt(player[1] + overlayRange, grid.OffsetX + grid.Width - 1)
      startY == maxInt(player[2] - overlayRange, grid.OffsetY)
      endY == minInt(player[2] + overlayRange, grid.OffsetY + grid.Height - 1)
  IN IF grid.isNil THEN 0
     ELSE Cardinality({w \in (startX..endX) \X (startY..endY) :
            CellAt(grid, w[1] - grid.OffsetX, w[2] - grid.OffsetY) \in DrawnTypes})

\* the loops of collectData over the objects and over the enemies: a unit in
\* range is appended, and the loop breaks once the list holds 80 points
RECURSIVE collectPoints(_, _, _, _, _)
collectPoints(units, i, player, size, points) ==
  IF i > Len(units) \/ Len(points) >= maxOverlayPoints THEN points
  ELSE LET dx == units[i].Position[1] - player[1]
           dy == units[i].Position[2] - player[2]
       IN IF ~withinRange(dx, dy) THEN collectPoints(units, i + 1, player, size, points)
          ELSE collectPoints(units, i + 1, player, size,
                 Append(points, [X |-> dx, Y |-> dy, Size |-> size[units[i].Kind],
                                 Kind |-> units[i].Kind]))

objectSize == [k \in {"Shrine", "Chest"} |-> "2"]
monsterSize ==
  [t \in {"None", "Minion", "Champion", "Unique", "SuperUnique"} |->
     IF t \in {"Champion", "Unique", "SuperUnique"} THEN "3.5" ELSE "2.5"]

collectPath(lastPath, player) ==
  LET near(node) == withinRange(node[1] - player[1], node[2] - player[2])
      nodes == SelectSeq(lastPath, near)
  IN [i \in 1..Len(nodes) |-> [X |-> nodes[i][1] - player[1], Y |-> nodes[i][2] - player[2]]]

WaitingMeta == <<"Waiting for game state...">>
MetaOf(area, tiles, objects, monsters) ==
  <<area, "tiles", tiles, "objects", objects, "monsters", monsters>>

collectData(snapshot) ==
  IF ~snapshot.isIngame THEN [NoPayload EXCEPT !.Meta = WaitingMeta]
  ELSE LET player == snapshot.player
           objects == collectPoints(snapshot.objects, 1, player, objectSize, <<>>)
           monsters == collectPoints(snapshot.enemies, 1, player, monsterSize, <<>>)
           tiles == collectTiles(snapshot, player)
       IN [Tiles |-> tiles, Path |-> collectPath(snapshot.lastPath, player),
           Objects |-> objects, Monsters |-> monsters,
           Meta |-> MetaOf(snapshot.area, tiles, Len(objects), Len(monsters))]

\* --- PayloadSpec: collectData on bounded snapshots ---

Players == {<<100, 100>>, <<500, 500>>}

\* n units around the player, every every-th of them out of range
UnitsAround(player, n, every, kinds) ==
  [i \in 1..n |->
     [Kind |-> kinds[(i % Len(kinds)) + 1],
      Position |-> IF every > 0 /\ i % every = 0
                   THEN <<player[1] + overlayRange + i, player[2]>>
                   ELSE <<player[1] + (i % 21) - 10, player[2] + (i \div 21) + 5>>]]

UnitCounts == {<<0, 0>>, <<1, 0>>, <<5, 2>>, <<80, 0>>, <<81, 0>>, <<110, 3>>, <<130, 3>>}

SquareGrid(player, half, size, even, odd) ==
  [isNil |-> FALSE, OffsetX |-> player[1] - half, OffsetY |-> player[2] - half,
   Width |-> size, Height |-> size, evenRows |-> even, oddRows |-> odd]

\* a nil grid, small grids, grids of 70x70 and 71x71 cells, a grid of 240x240
\* cells centred on the player, a larger grid and a grid out of range
AreaGrids(player) ==
  {NilGrid}
  \cup {SquareGrid(player, 5, 10, CollisionTypeWalkable, t) : t \in CollisionType}
  \cup {SquareGrid(player, 35, n, CollisionTypeWalkable, CollisionTypeNonWalkable) : n \in {70, 71}}
  \cup {SquareGrid(player, 120, 240, CollisionTypeWalkable, t) :
          t \in {CollisionTypeLowPriority, CollisionTypeMonster}}
  \cup {SquareGrid(player, 150, 300, CollisionTypeThickened, CollisionTypeWalkable),
        SquareGrid(player, -200, 10, CollisionTypeWalkable, CollisionTypeWalkable)}

LastPaths(player) ==
  {<<>>, <<player, <<player[1] + 3, player[2] - 120>>, <<player[1] + 121, player[2]>>,
           <<player[1] + 10, player[2] + 5>>>>}

PayloadInit ==
  /\ playerArea = "RogueEncampment"
  /\ availableWaypoints = {}
  /\ adjacentLevels = {}
  /\ canTeleport = FALSE
  /\ mapOrder = "asc"
  /\ payPc = "idle"
  /\ payload = NoPayload
  /\ \E player \in Players, ingame \in BOOLEAN, o \in UnitCounts, m \in UnitCounts :
       \E grid \in AreaGrids(player), path \in LastPaths(player) :
         dataSnapshot =
           [isIngame |-> ingame, player |-> player, area |-> "Blood Moor",
            objects |-> UnitsAround(player, o[1], o[2], <<"Shrine", "Chest">>),
            enemies |-> UnitsAround(player, m[1], m[2],
                          <<"None", "Champion", "Minion", "Unique", "SuperUnique">>),
            grid |-> grid, lastPath |-> path]
  /\ RouteIdle
  /\ SearchIdle
  /\ WayIdle
  /\ MtaIdle
  /\ EntIdle
  /\ MoveIdle
  /\ SelIdle
  /\ GridIdle
  /\ OverlayIdle
  /\ InstanceIdle
  /\ SyncIdle
  /\ NestIdle
  /\ PathIdle

\* handleData: one call of collectData
CollectData ==
  /\ payPc = "idle"
  /\ payPc' = "done"
  /\ \E p \in {collectData(dataSnapshot)} : payload' = p
  /\ UNCHANGED <<dataSnapshot, snapVars, otherThanPayload>>

PayloadNext == CollectData

PayloadSpec == PayloadInit /\ [][PayloadNext]_vars

\* C23: every payload collectData returns holds at most 5000 tiles, at most
\* 80 objects and at most 80 monsters.
C23_PayloadIsBounded ==
  payPc = "done" =>
    /\ payload.Tiles <= tilesCapacity
    /\ Len(payload.Objects) <= maxOverlayPoints
    /\ Len(payload.Monsters) <= maxOverlayPoints

\* the part of C23 that holds: the objects and the monsters are capped at 80
C23_PointsAreBounded ==
  payPc = "done" =>
    /\ Len(payload.Objects) <= maxOverlayPoints
    /\ Len(payload.Monsters) <= maxOverlayPoints

\* the cap acts: more than 80 objects are in range and 80 are in the payload
C23_CapReached ==
  /\ payPc = "done"
  /\ Len(dataSnapshot.objects) > maxOverlayPoints
  /\ Len(payload.Objects) = maxOverlayPoints

\* a payload within the three limits
C23_SmallPayload ==
  payPc = "done" /\ payload.Tiles > 0 /\ payload.Tiles <= tilesCapacity

\* ---------------------------------------------------------------------------
\* ensureAreaSync step by step (src/internal/action/move.go lines 95-118).
\* playerArea and syncDead are the snapshot ctx.Data; every poll replaces them
\* by what RefreshGameData reads.
\* ---------------------------------------------------------------------------

maxAreaSyncAttempts == 10

SyncAreas == {"RogueEncampment", "BloodMoor", "ColdPlains"}

SyncInit ==
  /\ playerArea \in SyncAreas
  /\ availableWaypoints = {}
  /\ adjacentLevels = {}
  /\ canTeleport = FALSE
  /\ mapOrder = "asc"
  /\ syncPc = "idle"
  /\ syncExpected = NoArea
  /\ syncDead \in BOOLEAN
  /\ syncAttempts = 0
  /\ syncObserved = <<>>
  /\ syncErr = "nil"
  /\ RouteIdle
  /\ SearchIdle
  /\ WayIdle
  /\ MtaIdle
  /\ EntIdle
  /\ MoveIdle
  /\ SelIdle
  /\ GridIdle
  /\ OverlayIdle
  /\ InstanceIdle
  /\ PayloadIdle
  /\ NestIdle
  /\ PathIdle

SyncReturn(err) ==
  /\ syncPc' = "done"
  /\ syncErr' = err

\* lines 96-99: the call and its first test, on the snapshot as it is
EnsureAreaSyncCall(expectedArea) ==
  /\ syncPc = "idle"
  /\ syncExpected' = expectedArea
  /\ IF playerArea = expectedArea
     THEN SyncReturn("nil")
     ELSE syncPc' = "loop" /\ syncErr' = syncErr
  /\ UNCHANGED <<syncDead, syncAttempts, syncObserved, snapVars, otherThanSync>>

\* lines 102-114 and 117: one turn of the loop; after the last turn the
\* timeout error is returned
EnsureAreaSyncPoll(area, dead) ==
  /\ syncPc = "loop"
  /\ syncAttempts < maxAreaSyncAttempts
  /\ playerArea' = area
  /\ syncDead' = dead
  /\ syncObserved' = Append(syncObserved, area)
  /\ IF checkPlayerDeath(area, dead) # "nil"
     THEN SyncReturn(checkPlayerDeath(area, dead)) /\ syncAttempts' = syncAttempts
     ELSE IF area = syncExpected
     THEN SyncReturn("nil") /\ syncAttempts' = syncAttempts
     ELSE /\ syncAttempts' = syncAttempts + 1
          /\ IF syncAttempts + 1 < maxAreaSyncAttempts
             THEN syncPc' = "loop" /\ syncErr' = syncErr
             ELSE SyncReturn("area sync timeout")
  /\ UNCHANGED <<syncExpected, availableWaypoints, adjacentLevels, canTeleport, mapOrder,
                 otherThanSync>>

SyncNext ==
  \/ \E expectedArea \in SyncAreas : EnsureAreaSyncCall(expectedArea)
  \/ \E area \in SyncAreas, dead \in BOOLEAN : EnsureAreaSyncPoll(area, dead)

SyncSpec == SyncInit /\ [][SyncNext]_vars

Polls == Len(syncObserved)
SyncCalled == syncPc # "idle"
SyncDone == syncPc = "done"
\* the latest refresh shows the avatar dead outside town
DiedOutside == Polls > 0 /\ syncDead /\ ~IsTown(playerArea)
AllDifferent == \A i \in 1..Polls : syncObserved[i] # syncExpected

\* C24 as stated: at most 10 refreshes; nil as soon as the area equals the
\* expected one; ErrDied as soon as a refresh shows the avatar dead outside
\* town; the timeout error exactly when all 10 polls showed a different area;
\* never nil while the area differs.
C24_AreaSyncAsStated ==
  SyncCalled =>
    /\ Polls <= maxAreaSyncAttempts
    /\ playerArea = syncExpected => SyncDone /\ syncErr = "nil"
    /\ DiedOutside => SyncDone /\ syncErr = "ErrDied"
    /\ (SyncDone /\ syncErr = "area sync timeout") <=>
         (Polls = maxAreaSyncAttempts /\ AllDifferent)
    /\ (SyncDone /\ syncErr = "nil") => playerArea = syncExpected

\* C24 with the order of the two tests: at most 10 refreshes; a refresh that
\* shows the avatar dead outside town ends the call with ErrDied, whatever the
\* area; otherwise the call returns nil as soon as the area equals the
\* expected one; the timeout error exactly when 10 polls showed a different
\* area and the last did not show the avatar dead outside town; never nil
\* while the area differs; the call goes on polling in no other case.
C24_AreaSync ==
  SyncCalled =>
    /\ Polls <= maxAreaSyncAttempts
    /\ DiedOutside <=> (SyncDone /\ syncErr = "ErrDied")
    /\ (playerArea = syncExpected /\ ~DiedOutside) <=> (SyncDone /\ syncErr = "nil")
    /\ (SyncDone /\ syncErr = "area sync timeout") <=>
         (Polls = maxAreaSyncAttempts /\ AllDifferent /\ ~DiedOutside)
    /\ syncPc = "loop" => Polls = syncAttempts /\ Polls < maxAreaSyncAttempts /\ AllDifferent
    /\ syncErr \in {"nil", "ErrDied", "area sync timeout"}

\* the call has timed out after 10 polls, the avatar dead in town at the last
C24_Witness ==
  /\ SyncDone
  /\ syncErr = "area sync timeout"
  /\ Polls = maxAreaSyncAttempts
  /\ syncDead

\* nil on the 10th poll
C24_WitnessLastPoll ==
  SyncDone /\ syncErr = "nil" /\ Polls = maxAreaSyncAttempts

\* ErrDied in the expected area
C24_WitnessDiedOnArrival ==
  SyncDone /\ syncErr = "ErrDied" /\ playerArea = syncExpected

(***************************************************************************)
(* NestSpec: the calls MoveToArea and moveToAreaSingle make of one another *)
(* and of themselves, one frame at a time.  The calls followed are the     *)
(* ones whose frames all return what the frame on top returns:             *)
(*   - moveToAreaSingle(ctx, NihlathaksTemple, true) in act 5: an outer    *)
(*     frame returns the error of the call at line 344, and the area is    *)
(*     the same in every frame;                                            *)
(*   - MoveToArea(DenOfEvil) in act 1: the route is the single hop to the  *)
(*     cave, line 522 returns what the MoveToArea it calls returns, line   *)
(*     262 returns the error of moveToAreaSingle, and after a nil the      *)
(*     avatar is in dst at line 232.                                       *)
(***************************************************************************)
\* the frames counted before the count starts over
MaxFrames == 4

\* the waypoints of the snapshots and the areas the calls are made in
NestWaypointPool == {"RogueEncampment", "Harrogath", "FrigidHighlands"}
NestStarts ==
  {"Harrogath", "FrigidHighlands", "HallsOfAnguish", "HallsOfPain", "HallsOfVaught",
   "BloodMoor", "DenOfEvil"}

NestInit ==
  /\ availableWaypoints \in SubsetsUpTo(NestWaypointPool, MaxWaypoints)
  /\ adjacentLevels = {}
  /\ canTeleport \in BOOLEAN
  /\ mapOrder = "asc"
  /\ playerArea \in NestStarts
  /\ RouteIdle
  /\ SearchIdle
  /\ WayIdle
  /\ MtaIdle
  /\ EntIdle
  /\ MoveIdle
  /\ SelIdle
  /\ GridIdle
  /\ OverlayIdle
  /\ InstanceIdle
  /\ PayloadIdle
  /\ SyncIdle
  /\ NestIdle
  /\ PathIdle

\* one more frame on the stack
NestPush(fn, seen) ==
  /\ nestPc' = fn
  /\ nestFrames' = (nestFrames % MaxFrames) + 1
  /\ nestSeen' = seen
  /\ UNCHANGED <<playerArea, nestErr>>

\* the frame on top returns err with the avatar in area, and so does every
\* frame below it
NestReturn(err, area, seen) ==
  /\ nestPc' = "done"
  /\ nestErr' = err
  /\ nestSeen' = seen
  /\ playerArea' = area
  /\ UNCHANGED nestFrames

\* the caller calls fn(dst)
NestCall(fn, dst) ==
  /\ nestPc = "idle"
  /\ \/ fn = "moveToAreaSingle" /\ dst = "NihlathaksTemple" /\ Act(playerArea) = 5
     \/ fn = "MoveToArea" /\ dst = "DenOfEvil" /\ Act(playerArea) = 1
  /\ nestEntry' = fn
  /\ nestDst' = dst
  /\ NestPush(fn, "called")
  /\ UNCHANGED <<availableWaypoints, adjacentLevels, canTeleport, mapOrder, otherThanNest>>

\* moveToNihlathakTempleFromHarrogath called in Harrogath: nil only once the
\* red portal brought the avatar into the temple
moveToNihlathakTempleFromHarrogath(ctx) ==
  {[err |-> "nil", area |-> "NihlathaksTemple"],
   [err |-> "portal interaction failed", area |-> ctx.Area]}

\* travelToActTown(ctx, act)
travelToActTown(ctx, act) ==
  IF ctx.Area = actTownWaypoints[act]
  THEN {[err |-> "nil", area |-> ctx.Area]}
  ELSE WayPoint(ctx, actTownWaypoints[act])

\* MoveToArea, lines 221-271, the frame on top: hops is 0 in every new frame
MoveToAreaFrame ==
  /\ nestPc = "MoveToArea"
  /\ nestDst # "DurielsLair"
  /\ IF playerArea = nestDst
     THEN NestReturn("nil", playerArea, "arrived")
     ELSE LET r == buildAreaRoute(ctxData, nestDst) IN
          /\ r.err = "nil"
          /\ Len(r.route) = 2
          /\ r.route[2] = nestDst
          /\ NestPush("moveToAreaSingle", "hop")
  /\ UNCHANGED <<nestEntry, nestDst>>
  /\ UNCHANGED <<availableWaypoints, adjacentLevels, canTeleport, mapOrder, otherThanNest>>

\* moveToAreaSingle(ctx, NihlathaksTemple, true), lines 274-353, the frame on
\* top; dead is PlayerUnit.IsDead() at line 276
MoveToTempleFrame(dead) ==
  /\ nestPc = "moveToAreaSingle"
  /\ nestDst = "NihlathaksTemple"
  /\ IF dead /\ ~IsTown(playerArea)
     THEN NestReturn("ErrDied", playerArea, "died")
     ELSE IF playerArea = "Harrogath"
     THEN \E r \in moveToNihlathakTempleFromHarrogath(ctxData) :
            NestReturn(r.err, r.area, "portal")
     ELSE IF playerArea \notin Range(CanReachNihlathakTempleFrom)
     THEN \E t \in travelToActTown(ctxData, 5) :
            IF t.err # "nil"
            THEN NestReturn(t.err, t.area, "town")
            ELSE \E r \in moveToNihlathakTempleFromHarrogath([ctxData EXCEPT !.Area = t.area]) :
                   NestReturn(r.err, r.area, "portal")
     ELSE \* line 344: the same call in the same area
          NestPush("moveToAreaSingle", "sameCall")
  /\ UNCHANGED <<nestEntry, nestDst>>
  /\ UNCHANGED <<availableWaypoints, adjacentLevels, canTeleport, mapOrder, otherThanNest>>

\* moveToAreaSingle(ctx, dst, true) towards a cave, lines 274-569, the frame
\* on top: dead at line 276, found tells whether findLevelData has the
\* entrance, moveErr is the error of MoveTo, far whether the entrance is more
\* than 7 away at line 520
MoveToEntranceFrame(dead, found, moveErr, far) ==
  /\ nestPc = "moveToAreaSingle"
  /\ nestDst # "NihlathaksTemple"
  /\ ~isPortalTransition(playerArea, nestDst)
  /\ findProxyArea(ctxData, nestDst) = NoArea
  /\ IF dead /\ ~IsTown(playerArea)
     THEN NestReturn("ErrDied", playerArea, "died")
     ELSE IF ~found
     THEN \E w \in WayPoint(ctxData, nestDst) : NestReturn(w.err, w.area, "waypoint")
     ELSE IF moveErr
     THEN NestReturn("MoveTo failed", playerArea, "moveFailed")
     ELSE IF far
     THEN \* line 522
          NestPush("MoveToArea", "far")
     ELSE \E r \in {[err |-> "ErrDied", area |-> playerArea],
                    [err |-> "failed to interact", area |-> playerArea]}
                     \cup ensureAreaSync(playerArea, nestDst) :
            NestReturn(r.err, r.area, "entrance")
  /\ UNCHANGED <<nestEntry, nestDst>>
  /\ UNCHANGED <<availableWaypoints, adjacentLevels, canTeleport, mapOrder, otherThanNest>>

NestNext ==
  \/ \E fn \in {"MoveToArea", "moveToAreaSingle"}, dst \in {"NihlathaksTemple", "DenOfEvil"} :
       NestCall(fn, dst)
  \/ MoveToAreaFrame
  \/ \E dead \in BOOLEAN : MoveToTempleFrame(dead)
  \/ \E dead, found, moveErr, far \in BOOLEAN : MoveToEntranceFrame(dead, found, moveErr, far)

\* a frame that is ready to run is run
NestSpec == NestInit /\ [][NestNext]_vars /\ WF_vars(NestNext)

\* the outermost call has returned
NestReturned == nestPc = "done"

\* C36: moveToAreaSingle with destination NihlathaksTemple returns, from
\* every area of act 5 it is called in: in the Halls too it changes area or
\* returns an error instead of calling itself again and again.
C36_TempleCallReturns ==
  (nestEntry = "moveToAreaSingle" /\ nestDst = "NihlathaksTemple") ~> NestReturned

\* outside the Halls the call returns from its first frame
C36_OnlyTheHallsRecur ==
  [][nestSeen' = "sameCall" =>
       /\ playerArea \in Range(CanReachNihlathakTempleFrom)
       /\ playerArea' = playerArea]_vars

\* the call in the Halls, MaxFrames frames deep and as many again
C36_SameCallAgain ==
  /\ nestSeen = "sameCall"
  /\ nestFrames = 1
  /\ nestPc = "moveToAreaSingle"

\* C37: MoveToArea returns after a bounded number of nested calls, also when
\* the entrance is still more than 7 away after each approach walk.
C37_NestedCallsReturn ==
  (nestEntry = "MoveToArea") ~> NestReturned

\* only the far entrance opens a MoveToArea frame below the first
C37_OnlyFarEntranceNests ==
  [][(nestPc' = "MoveToArea" /\ nestPc # "idle") =>
       /\ nestSeen' = "far"
       /\ nestPc = "moveToAreaSingle"
       /\ playerArea' = playerArea]_vars

\* the nested MoveToArea, MaxFrames frames deep and more
C37_NestedAgain ==
  /\ nestPc = "MoveToArea"
  /\ nestSeen = "far"
  /\ nestFrames = 1

(***************************************************************************)
(* PathSpec: staticAreaPath applied to every pair of areas.                *)
(***************************************************************************)
\* the static table is all the search reads; the snapshot is any one
PathInit ==
  /\ availableWaypoints = {}
  /\ adjacentLevels = {}
  /\ canTeleport = FALSE
  /\ mapOrder = "asc"
  /\ playerArea = "RogueEncampment"
  /\ RouteIdle
  /\ SearchIdle
  /\ WayIdle
  /\ MtaIdle
  /\ EntIdle
  /\ MoveIdle
  /\ SelIdle
  /\ GridIdle
  /\ OverlayIdle
  /\ InstanceIdle
  /\ PayloadIdle
  /\ SyncIdle
  /\ NestIdle
  /\ PathIdle

\* path, ok := staticAreaPath(start, goal)
StaticAreaPathCall(start, goal) ==
  /\ pathStart = NoArea
  /\ pathStart' = start
  /\ pathGoal' = goal
  /\ pathResult' = staticAreaPath(start, goal)
  /\ UNCHANGED <<snapVars, otherThanPath>>

PathNext == \E start, goal \in Areas : StaticAreaPathCall(start, goal)

PathSpec == PathInit /\ [][PathNext]_vars

\* the least number of outgoing static edges from the areas of frontier, n
\* edges away from the start, to goal, and -1 when there is no such walk;
\* seen holds the areas at most n edges away
RECURSIVE StaticHopsFrom(_, _, _, _)
StaticHopsFrom(frontier, seen, goal, n) ==
  IF goal \in frontier THEN n
  ELSE IF frontier = {} THEN -1
  ELSE Bind(UNION {Range(staticNeighbors(a)) : a \in frontier} \ seen,
            LAMBDA next : StaticHopsFrom(next, seen \cup next, goal, n + 1))

StaticHops(start, goal) == StaticHopsFrom({start}, {start}, goal, 0)

\* C40: staticAreaPath(start, goal) returns ([start], true) when start is
\* goal; otherwise a path from start to goal along outgoing edges of the
\* static table with the least number of hops; and (nil, false) exactly when
\* goal cannot be reached from start along such edges.
C40_StaticPathShortest ==
  pathStart # NoArea =>
    /\ pathStart = pathGoal => pathResult = [path |-> <<pathStart>>, ok |-> TRUE]
    /\ pathResult.ok <=> StaticHops(pathStart, pathGoal) >= 0
    /\ ~pathResult.ok => pathResult.path = <<>>
    /\ pathResult.ok =>
         /\ pathResult.path # <<>>
         /\ pathResult.path[1] = pathStart
         /\ pathResult.path[Len(pathResult.path)] = pathGoal
         /\ \A i \in 1..(Len(pathResult.path) - 1) :
              IsStaticEdge(pathResult.path[i], pathResult.path[i + 1])
         /\ Len(pathResult.path) - 1 = StaticHops(pathStart, pathGoal)

\* a path found from the docks through the jungle, where the table has two
\* ways round (SpiderForest, GreatMarsh and FlayerJungle are neighbours of
\* one another)
C40_Witness ==
  /\ pathStart = "KurastDocks"
  /\ pathGoal = "LowerKurast"
  /\ pathResult.ok
  /\ pathResult.path = <<"KurastDocks", "SpiderForest", "FlayerJungle", "LowerKurast">>
  /\ IsStaticEdge("SpiderForest", "GreatMarsh")
  /\ IsStaticEdge("GreatMarsh", "FlayerJungle")

\* no path back from the canyon to the sanctuary
C40_WitnessNoPath ==
  /\ pathStart = "CanyonOfTheMagi"
  /\ pathGoal = "ArcaneSanctuary"
  /\ ~pathResult.ok
  /\ pathResult.path = <<>>
  /\ IsStaticEdge("ArcaneSanctuary", "CanyonOfTheMagi")

=============================================================================
